---------------------------- MODULE Spec2Model ----------------------------
(***************************************************************************)
(* A model of the oracle-fusion mock client: the two singleton data        *)
(* loaders (MockDataLoader, SalesOrderDataLoader), the clients and         *)
(* services that hold them, and the pagination / sort / lookup helpers.    *)
(*                                                                         *)
(* The two loader classes share no state (each has its own _instance and   *)
(* _data class attributes), so a behaviour follows one of them: cls is     *)
(* chosen in Init and never changes.                                       *)
(***************************************************************************)
EXTENDS Integers, Sequences, FiniteSets, TLC

(***************************************************************************)
(* Bounds of the exploration.                                              *)
(***************************************************************************)
MaxObjs == 2        \* loader objects ever allocated
MaxEpoch == 1       \* reset() calls
MaxHolders == 2     \* clients / services / loader references kept by callers
MaxReads == 2       \* reads of the source document within one session
MaxLen == 4         \* length of a list handed to pagination
MaxLimit == 3       \* largest limit / offset handed to pagination
MaxNeg == 1         \* most negative limit / offset handed to pagination
MaxRecs == 2        \* length of a record list handed to a query filter
MaxThreads == 2     \* threads constructing loaders and reading concurrently

(***************************************************************************)
(* Python values.  A JSON scalar is a tagged value so that an integer and  *)
(* a string are never confused: t is "int" or "str", n the integer, s the  *)
(* string as a sequence of one-character strings.                          *)
(***************************************************************************)
IntV(n) == [t |-> "int", n |-> n, s |-> <<>>]
StrV(s) == [t |-> "str", n |-> 0, s |-> s]

\* The characters used, in code-point order (Python compares strings by code point).
CharOrder ==
    << " ", "%", "'", "*", "+", "-", ".",
       "0", "1", "2", "3", "4", "5", "6", "7", "8", "9",
       ";", "<", "=", ">",
       "A", "B", "C", "D", "E", "I", "K", "L", "M", "N", "O", "P", "Q", "R", "S", "U", "X",
       "_",
       "a", "b", "c", "d", "e", "i", "k", "l", "m", "n", "o", "p", "q", "r", "s", "u", "x" >>

Ord(c) == CHOOSE i \in 1..Len(CharOrder) : CharOrder[i] = c

Digits == {"0", "1", "2", "3", "4", "5", "6", "7", "8", "9"}

DigitVal(c) == Ord(c) - Ord("0")

RECURSIVE StrLess(_, _)
\* str.__lt__: lexicographic by code point, a proper prefix is smaller.
StrLess(a, b) ==
    IF b = <<>> THEN FALSE
    ELSE IF a = <<>> THEN TRUE
    ELSE IF Head(a) = Head(b) THEN StrLess(Tail(a), Tail(b))
    ELSE Ord(Head(a)) < Ord(Head(b))

RECURSIVE Strip(_)
\* str.strip() for the blank character.
Strip(s) ==
    IF s = <<>> THEN s
    ELSE IF Head(s) = " " THEN Strip(Tail(s))
    ELSE IF s[Len(s)] = " " THEN Strip(SubSeq(s, 1, Len(s) - 1))
    ELSE s

RECURSIVE DigitsValue(_, _)
\* The value of a digit string with single underscores allowed between digits.
DigitsValue(s, acc) ==
    IF s = <<>> THEN acc
    ELSE IF Head(s) = "_" THEN DigitsValue(Tail(s), acc)
    ELSE DigitsValue(Tail(s), 10 * acc + DigitVal(Head(s)))

\* A digit string int() accepts: digits, with single underscores between digits only.
IsDigitString(s) ==
    /\ s # <<>>
    /\ \A i \in 1..Len(s) : s[i] \in Digits \cup {"_"}
    /\ s[1] # "_"
    /\ s[Len(s)] # "_"
    /\ \A i \in 1..(Len(s) - 1) : ~(s[i] = "_" /\ s[i + 1] = "_")

\* int(x) of Python: [ok, n]. An int is returned as is; a string is stripped,
\* may carry one sign, and must then be a digit string, else ValueError (ok = FALSE).
PyInt(v) ==
    IF v.t = "int" THEN [ok |-> TRUE, n |-> v.n]
    ELSE LET s == Strip(v.s)
             signed == s # <<>> /\ Head(s) \in {"+", "-"}
             body == IF signed THEN Tail(s) ELSE s
         IN  IF IsDigitString(body)
             THEN [ok |-> TRUE,
                   n |-> IF signed /\ Head(s) = "-"
                         THEN 0 - DigitsValue(body, 0) ELSE DigitsValue(body, 0)]
             ELSE [ok |-> FALSE, n |-> 0]

RECURSIVE NatStr(_)
\* The decimal digits of a natural number.
NatStr(n) ==
    IF n < 10 THEN <<CharOrder[Ord("0") + n]>>
    ELSE Append(NatStr(n \div 10), CharOrder[Ord("0") + (n % 10)])

\* str() of a float given in hundredths: the shortest text, at least one decimal.
FloatStr(h) ==
    LET a == IF h < 0 THEN 0 - h ELSE h
        frac == a % 100
        decimals == IF frac % 10 = 0 THEN NatStr(frac \div 10)
                    ELSE NatStr(frac \div 10) \o NatStr(frac % 10)
    IN  (IF h < 0 THEN <<"-">> ELSE <<>>) \o NatStr(a \div 100) \o <<".">> \o decimals

\* str(x), as an f-string formats a value.
PyStr(v) ==
    IF v.t = "str" THEN v.s
    ELSE IF v.t = "float" THEN FloatStr(v.n)
    ELSE IF v.n < 0 THEN <<"-">> \o NatStr(0 - v.n)
    ELSE NatStr(v.n)

\* A JSON number with a fraction, as a Python float: n is the value in
\* hundredths (the documents and literals used carry at most two decimals).
FloatV(h) == [t |-> "float", n |-> h, s |-> <<>>]

IsNumber(v) == v.t \in {"int", "float"}

\* The value of a number in hundredths: the scale on which Python compares an
\* int with a float.
Hundredths(v) == IF v.t = "int" THEN 100 * v.n ELSE v.n

\* The letters used, upper and lower case side by side.
UpperCase == << "A", "B", "C", "D", "E", "I", "K", "L", "M", "N", "O", "P", "Q", "R", "S", "U", "X" >>
LowerCase == << "a", "b", "c", "d", "e", "i", "k", "l", "m", "n", "o", "p", "q", "r", "s", "u", "x" >>

\* str.lower() of one character, as re.IGNORECASE compares characters.
LowerChar(c) ==
    IF \E i \in 1..Len(UpperCase) : UpperCase[i] = c
    THEN LowerCase[CHOOSE i \in 1..Len(UpperCase) : UpperCase[i] = c]
    ELSE c

\* The characters the regular-expression class \w matches.
WordChars ==
    Digits \cup {"_"} \cup {UpperCase[i] : i \in 1..Len(UpperCase)}
           \cup {LowerCase[i] : i \in 1..Len(LowerCase)}

\* x == y of Python on JSON scalars: numbers by value, strings by content, a
\* number never equals a string.
PyEq(a, b) ==
    IF IsNumber(a) /\ IsNumber(b) THEN Hundredths(a) = Hundredths(b)
    ELSE a.t = "str" /\ b.t = "str" /\ a.s = b.s

\* x <= y of Python: [exc, v]; comparing a number with a string raises TypeError.
PyLe(a, b) ==
    IF IsNumber(a) /\ IsNumber(b)
    THEN [exc |-> "", v |-> Hundredths(a) <= Hundredths(b)]
    ELSE IF a.t = "str" /\ b.t = "str"
    THEN [exc |-> "", v |-> (a.s = b.s \/ StrLess(a.s, b.s))]
    ELSE [exc |-> "TypeError", v |-> FALSE]

\* The position of the first c in s, 0 when there is none.
Find(s, c) ==
    IF \E i \in 1..Len(s) : s[i] = c
    THEN CHOOSE i \in 1..Len(s) : s[i] = c /\ \A j \in 1..(i - 1) : s[j] # c
    ELSE 0

\* float(x) of a string: [ok, n] with n in hundredths. The text is stripped,
\* may carry one sign, and is digits, a point, digits, with a digit on at
\* least one side (texts with an exponent, "inf" or "nan" are not used).
PyFloat(s0) ==
    LET s == Strip(s0)
        signed == s # <<>> /\ Head(s) \in {"+", "-"}
        body == IF signed THEN Tail(s) ELSE s
        dot == Find(body, ".")
        whole == IF dot = 0 THEN body ELSE SubSeq(body, 1, dot - 1)
        frac == IF dot = 0 THEN <<>> ELSE SubSeq(body, dot + 1, Len(body))
        wholeOk == whole = <<>> \/ IsDigitString(whole)
        fracOk == frac = <<>> \/ (IsDigitString(frac) /\ Len(frac) <= 2)
        scaled == IF frac = <<>> THEN 0
                  ELSE IF Len(frac) = 1 THEN 10 * DigitsValue(frac, 0)
                  ELSE DigitsValue(frac, 0)
        value == 100 * DigitsValue(whole, 0) + scaled
    IN  IF wholeOk /\ fracOk /\ (whole # <<>> \/ frac # <<>>)
        THEN [ok |-> TRUE, n |-> IF signed /\ Head(s) = "-" THEN 0 - value ELSE value]
        ELSE [ok |-> FALSE, n |-> 0]

\* A local variable: the value of Body at x, x being computed once.
Local(x, Body(_)) == CHOOSE r \in { Body(v) : v \in {x} } : TRUE

\* bool(x): zero and the empty string are false.
Truthy(v) == IF IsNumber(v) THEN v.n # 0 ELSE v.s # <<>>

(***************************************************************************)
(* Records, datasets and the source documents.                             *)
(***************************************************************************)
\* dict.get(field): [has, v]; has = FALSE stands for None (the field is absent).
Get(rec, field) ==
    IF field \in DOMAIN rec THEN [has |-> TRUE, v |-> rec[field]]
    ELSE [has |-> FALSE, v |-> IntV(0)]

\* data.get(name, []): the records of an entity type, [] when the document lacks it.
DataGet(d, name) == IF name \in DOMAIN d THEN d[name] ELSE <<>>

\* A purchase order carrying every field the PurchaseOrder model requires.
PO(id, num, code, sup) ==
    [POHeaderId |-> IntV(id), OrderNumber |-> StrV(num), Status |-> StrV(code),
     StatusCode |-> StrV(code), Supplier |-> StrV(<<"A", "B", "C">>),
     SupplierId |-> IntV(sup), ProcurementBU |-> StrV(<<"B", "X">>),
     ProcurementBUId |-> IntV(1), Currency |-> StrV(<<"E", "D">>)]

WithSite(rec, site) == [SupplierSiteId |-> IntV(site)] @@ rec

Supplier(id, name) ==
    [SupplierId |-> IntV(id), Supplier |-> StrV(name), SupplierNumber |-> StrV(<<"S", "1">>)]

Order(id, num, code, cust) ==
    [HeaderId |-> StrV(id), OrderNumber |-> StrV(num), StatusCode |-> StrV(code),
     CustomerId |-> StrV(cust)]

\* A record without its type's key field (db.json holds such items).
Keyless == [Description |-> StrV(<<"x">>)]

\* The classes that hold the singleton state.
Classes == {"MockDataLoader", "SalesOrderDataLoader"}

\* The source documents that exist, per class: path -> parsed JSON document.
\* "A" is the document at the default location, "B" a custom one.
Files(c) ==
    IF c = "MockDataLoader"
    THEN [A |-> [purchaseOrders |->
                    << WithSite(PO(1, <<"P", "1">>, <<"O">>, 10), 5),
                       PO(2, <<"P", "2">>, <<"C">>, 10),
                       Keyless,
                       WithSite(PO(3, <<"P", "3">>, <<"O">>, 20), 7) >>,
                 suppliers |-> << Supplier(10, <<"A", "B", "C">>),
                                  Supplier(20, <<"a", "b", "D">>) >>],
          B |-> [purchaseOrders |->
                    << PO(1, <<"P", "9">>, <<"O">>, 30),
                       PO(4, <<"P", "4">>, <<"O">>, 30) >>]]
    ELSE [A |-> [salesOrders |->
                    << Order(<<"1">>, <<"S", "1">>, <<"B">>, <<"C", "1">>),
                       Order(<<"2">>, <<"S", "2">>, <<"D">>, <<"C", "1">>),
                       Order(<<"3">>, <<"S", "3">>, <<"B">>, <<"C", "2">>) >>,
                 customers |-> << [CustomerId |-> StrV(<<"C", "1">>)],
                                  [CustomerId |-> StrV(<<"C", "2">>)] >>,
                 products |-> << [InventoryItemId |-> StrV(<<"X", "1">>)] >>],
          B |-> [salesOrders |->
                    << Order(<<"1">>, <<"S", "9">>, <<"B">>, <<"C", "9">>),
                       Keyless >>]]

\* Path arguments a constructor is given: NoPath is data_path=None.
NoPath == "None"
DefaultPath == "A"
PathArgs == {NoPath, "A", "B", "missing"}

\* Path.exists()
Exists(c, path) == path \in DOMAIN Files(c)

\* The entity types of a class: document key, primary-key field, index attribute.
Entities(c) ==
    IF c = "MockDataLoader"
    THEN { [name |-> "purchaseOrders", key |-> "POHeaderId", index |-> "purchase_orders_by_id"],
           [name |-> "suppliers", key |-> "SupplierId", index |-> "suppliers_by_id"],
           [name |-> "purchaseRequisitions", key |-> "RequisitionHeaderId", index |-> "requisitions_by_id"],
           [name |-> "draftPurchaseOrders", key |-> "POHeaderId", index |-> "draft_pos_by_id"],
           [name |-> "purchaseAgreements", key |-> "AgreementHeaderId", index |-> "agreements_by_id"],
           [name |-> "purchaseOrderAcknowledgments", key |-> "POHeaderId", index |-> "acknowledgments_by_po_id"] }
    ELSE { [name |-> "salesOrders", key |-> "HeaderId", index |-> "orders_by_id"],
           [name |-> "customers", key |-> "CustomerId", index |-> "customers_by_id"],
           [name |-> "products", key |-> "InventoryItemId", index |-> "products_by_id"] }

IndexNames(c) == {e.index : e \in Entities(c)}

EntityOf(c, index) == CHOOSE e \in Entities(c) : e.index = index

\* One index loop of _build_indexes: records carrying the key field are stored
\* under their key, a later record replacing an earlier one with the same key.
IndexLoop(recs, key) ==
    LET at == {i \in 1..Len(recs) : key \in DOMAIN recs[i]}
        last(k) == CHOOSE i \in at :
                       /\ recs[i][key] = k
                       /\ \A j \in at : recs[j][key] = k => j <= i
    IN  [k \in {recs[i][key] : i \in at} |-> recs[last(k)]]

\* _build_indexes: one index per entity type of the class.
BuildIndexes(c, d) ==
    [ix \in IndexNames(c) |-> IndexLoop(DataGet(d, EntityOf(c, ix).name), EntityOf(c, ix).key)]


(***************************************************************************)
(* Pagination and sorting helpers of the services and of the sales client. *)
(***************************************************************************)
Min(a, b) == IF a < b THEN a ELSE b
Max(a, b) == IF a > b THEN a ELSE b

\* One bound of a Python slice over a list of length n: a negative bound counts
\* from the end, and every bound is clamped to 0..n.
SliceBound(i, n) == IF i < 0 THEN Max(i + n, 0) ELSE Min(i, n)

\* items[start:stop]
PySlice(items, start, stop) ==
    LET lo == SliceBound(start, Len(items))
        hi == SliceBound(stop, Len(items))
    IN  IF lo < hi THEN SubSeq(items, lo + 1, hi) ELSE <<>>

\* Faulty variant: the slice stops at limit instead of offset + limit.
ApplyPaginationStopAtLimit(items, limit, offset) ==
    [items |-> PySlice(items, offset, limit),
     has_more |-> (offset + limit) < Len(items)]

\* Faulty variant: has_more still true on the page that ends the list.
ApplyPaginationInclusive(items, limit, offset) ==
    [items |-> PySlice(items, offset, offset + limit),
     has_more |-> (offset + limit) <= Len(items)]

\* BaseMockService._apply_pagination: (paginated, has_more)
ApplyPagination(items, limit, offset) ==
    [items |-> PySlice(items, offset, offset + limit),
     has_more |-> (offset + limit) < Len(items)]

\* Faulty variant: the total reported is the length of the page.
SalesApplyPaginationPageTotal(items, limit, offset) ==
    [items |-> PySlice(items, offset, offset + limit),
     total |-> Len(PySlice(items, offset, offset + limit))]

\* SalesOrderMockClient._apply_pagination: (paginated, total)
SalesApplyPagination(items, limit, offset) ==
    [items |-> PySlice(items, offset, offset + limit),
     total |-> Len(items)]

\* The sort key of _apply_order_by: x.get(field) or "" -- an absent field, the
\* number 0 and the empty string all become "".
SortKey(rec, field) ==
    LET g == Get(rec, field)
    IN  IF ~g.has THEN StrV(<<>>)
        ELSE IF g.v.t = "int" /\ g.v.n = 0 THEN StrV(<<>>)
        ELSE g.v

\* a < b for two keys of one type.
KeyLess(a, b) == IF a.t = "int" THEN a.n < b.n ELSE StrLess(a.s, b.s)

RECURSIVE InsertSorted(_, _, _, _)
\* x goes after every element it is not smaller than (not greater than, when
\* descending): the order sorted() gives, which is stable in both directions.
InsertSorted(acc, x, field, descending) ==
    IF acc = <<>> THEN <<x>>
    ELSE LET y == acc[Len(acc)]
             before == IF descending
                       THEN KeyLess(SortKey(y, field), SortKey(x, field))
                       ELSE KeyLess(SortKey(x, field), SortKey(y, field))
         IN  IF before
             THEN Append(InsertSorted(SubSeq(acc, 1, Len(acc) - 1), x, field, descending), y)
             ELSE Append(acc, x)

RECURSIVE SortedBy(_, _, _)
SortedBy(items, field, descending) ==
    IF items = <<>> THEN <<>>
    ELSE InsertSorted(SortedBy(SubSeq(items, 1, Len(items) - 1), field, descending),
                      items[Len(items)], field, descending)

\* order_by.split(":") on a sort expression given as tokens, the field name and
\* the direction being one token each: the tokens before the first ":" and the
\* token after it.
OrderByField(order_by) == order_by[1]
OrderByDescending(order_by) ==
    /\ Len(order_by) >= 3
    /\ order_by[2] = ":"
    /\ order_by[3] \in {"desc", "DESC", "Desc"}

\* BaseMockService._apply_order_by: the items when no order is asked for, else
\* sorted(); comparing an int key with a str key raises TypeError.
ApplyOrderBy(items, order_by) ==
    IF order_by = <<>> THEN [exc |-> "", items |-> items]
    ELSE LET field == OrderByField(order_by)
             types == {SortKey(items[i], field).t : i \in 1..Len(items)}
         IN  IF Cardinality(types) > 1
             THEN [exc |-> "TypeError", items |-> <<>>]
             ELSE [exc |-> "", items |-> SortedBy(items, field, OrderByDescending(order_by))]

(***************************************************************************)
(* The query filters: BaseMockService._apply_query_filter (one clause:     *)
(* equality or like) and SalesOrderMockClient._apply_query_filter (clauses *)
(* joined by ";": =, >=, <=).  A query is <<>> for None, else <<text>>.    *)
(***************************************************************************)
\* The field names the filtered records use, with their spelling. A clause
\* naming any other field reads None from every record.
FieldTable ==
    [Id |-> <<"I", "d">>, Code |-> <<"C", "o", "d", "e">>,
     Price |-> <<"P", "r", "i", "c", "e">>,
     OrderNumber |-> <<"O", "r", "d", "e", "r", "N", "u", "m", "b", "e", "r">>,
     SupplierId |-> <<"S", "u", "p", "p", "l", "i", "e", "r", "I", "d">>]

NoField == "?"

FieldNamed(chars) ==
    IF \E f \in DOMAIN FieldTable : FieldTable[f] = chars
    THEN CHOOSE f \in DOMAIN FieldTable : FieldTable[f] = chars
    ELSE NoField

RECURSIVE Split(_, _)
\* s.split(sep) for a one-character separator: always at least one part.
Split(s, sep) ==
    LET i == Find(s, sep)
    IN  IF i = 0 THEN <<s>>
        ELSE <<SubSeq(s, 1, i - 1)>> \o Split(SubSeq(s, i + 1, Len(s)), sep)

StartsWith(s, p) == Len(s) >= Len(p) /\ SubSeq(s, 1, Len(p)) = p

\* The length of the longest prefix of s made of characters of the set cs:
\* what a greedy (\w+), \s+ or ([^']+) takes.
PrefixLen(s, cs) ==
    CHOOSE k \in 0..Len(s) :
        /\ \A i \in 1..k : s[i] \in cs
        /\ k = Len(s) \/ s[k + 1] \notin cs

AllChars == {CharOrder[i] : i \in 1..Len(CharOrder)}

NoMatch == [ok |-> FALSE, field |-> <<>>, op |-> "", value |-> <<>>]

\* re.match(r"(\w+)(>=|<=|=)(.+)", condition): the field is the longest word
\* prefix, the operators are tried in that order, the value is the non-empty rest.
SalesMatchClause(condition) ==
    LET k == PrefixLen(condition, WordChars)
        rest == SubSeq(condition, k + 1, Len(condition))
        op == IF StartsWith(rest, <<">", "=">>) /\ Len(rest) > 2 THEN ">="
              ELSE IF StartsWith(rest, <<"<", "=">>) /\ Len(rest) > 2 THEN "<="
              ELSE IF StartsWith(rest, <<"=">>) /\ Len(rest) > 1 THEN "="
              ELSE ""
        skip == IF op = "=" THEN 1 ELSE 2
    IN  IF k = 0 \/ op = "" THEN NoMatch
        ELSE [ok |-> TRUE, field |-> SubSeq(condition, 1, k), op |-> op,
              value |-> SubSeq(rest, skip + 1, Len(rest))]

\* The sales client's conversion of the literal: float(value) when it holds a
\* point, else int(value); the text itself when that raises ValueError.
SalesCoerce(value) ==
    IF Find(value, ".") # 0
    THEN IF PyFloat(value).ok THEN FloatV(PyFloat(value).n) ELSE StrV(value)
    ELSE IF PyInt(StrV(value)).ok THEN IntV(PyInt(StrV(value)).n) ELSE StrV(value)

\* Faulty variant: an item without the field passes an equality condition.
SalesKeepsAbsentPasses(item, field, op, value) ==
    LET g == Get(item, FieldNamed(field))
    IN  IF ~g.has THEN [exc |-> "", v |-> op = "="]
        ELSE IF op = "=" THEN [exc |-> "", v |-> PyEq(g.v, value)]
        ELSE IF op = ">=" THEN PyLe(value, g.v)
        ELSE PyLe(g.v, value)

\* One condition of the sales filter on one item: [exc, v].
SalesKeeps(item, field, op, value) ==
    LET g == Get(item, FieldNamed(field))
    IN  IF ~g.has THEN [exc |-> "", v |-> FALSE]
        ELSE IF op = "=" THEN [exc |-> "", v |-> PyEq(g.v, value)]
        ELSE IF op = ">=" THEN PyLe(value, g.v)
        ELSE PyLe(g.v, value)

RECURSIVE SalesFilterBy(_, _)
\* The loop over the conditions: each narrows the list the previous one left;
\* a comparison that raises ends the call.
SalesFilterBy(items, conditions) ==
    IF conditions = <<>> THEN [exc |-> "", items |-> items]
    ELSE LET condition == Strip(Head(conditions))
             m == SalesMatchClause(condition)
             value == SalesCoerce(m.value)
             raised == \E i \in 1..Len(items) :
                           SalesKeeps(items[i], m.field, m.op, value).exc # ""
             kept == SelectSeq(items, LAMBDA item :
                                  SalesKeeps(item, m.field, m.op, value).v)
         IN  IF condition = <<>> \/ ~m.ok THEN SalesFilterBy(items, Tail(conditions))
             ELSE IF raised THEN [exc |-> "TypeError", items |-> <<>>]
             ELSE SalesFilterBy(kept, Tail(conditions))

\* SalesOrderMockClient._apply_query_filter(items, query): [exc, items]
SalesApplyQueryFilter(items, query) ==
    IF query = <<>> \/ query = << <<>> >> THEN [exc |-> "", items |-> items]
    ELSE SalesFilterBy(items, Split(query[1], ";"))

\* re.match(r"(\w+)='?([^']+)'?", query): the field is the longest word
\* prefix, "=" follows at once, an opening quote is skipped when text other
\* than a quote follows it, and the value is the text up to the next quote.
BaseMatchEquality(query) ==
    LET k == PrefixLen(query, WordChars)
        rest == SubSeq(query, k + 1, Len(query))
        after == IF rest = <<>> THEN <<>> ELSE Tail(rest)
        body == IF after # <<>> /\ Head(after) = "'" THEN Tail(after) ELSE after
        n == PrefixLen(body, AllChars \ {"'"})
    IN  IF k = 0 \/ ~StartsWith(rest, <<"=">>) \/ n = 0 THEN NoMatch
        ELSE [ok |-> TRUE, field |-> SubSeq(query, 1, k), op |-> "=",
              value |-> SubSeq(body, 1, n)]

\* re.match(r"(\w+)\s+like\s+'([^']+)'", query, re.IGNORECASE): field, blanks,
\* the keyword in any case, blanks, and a non-empty quoted pattern.
BaseMatchLike(query) ==
    LET k == PrefixLen(query, WordChars)
        r1 == SubSeq(query, k + 1, Len(query))
        b1 == PrefixLen(r1, {" "})
        r2 == SubSeq(r1, b1 + 1, Len(r1))
        keyword == [i \in 1..4 |-> IF i <= Len(r2) THEN LowerChar(r2[i]) ELSE " "]
        r3 == SubSeq(r2, 5, Len(r2))
        b2 == PrefixLen(r3, {" "})
        r4 == SubSeq(r3, b2 + 1, Len(r3))
        body == IF r4 = <<>> THEN <<>> ELSE Tail(r4)
        n == PrefixLen(body, AllChars \ {"'"})
    IN  IF /\ k > 0
           /\ b1 > 0
           /\ keyword = <<"l", "i", "k", "e">>
           /\ b2 > 0
           /\ StartsWith(r4, <<"'">>)
           /\ n > 0
           /\ n < Len(body)
        THEN [ok |-> TRUE, field |-> SubSeq(query, 1, k), op |-> "like",
              value |-> SubSeq(body, 1, n)]
        ELSE NoMatch

RECURSIVE RegexMatch(_, _)
\* regex.match(text) for the expression pattern.replace("*", ".*").replace("%", ".*")
\* compiled with re.IGNORECASE, read off the pattern itself: "*" and "%" stand
\* for any run of characters, "." for any one character, and every other
\* character for itself in either case; the match starts at the start of the
\* text and may end anywhere. (Patterns hold no other regex operator.)
RegexMatch(pattern, text) ==
    IF pattern = <<>> THEN TRUE
    ELSE IF Head(pattern) \in {"*", "%"}
    THEN \E k \in 0..Len(text) :
             RegexMatch(Tail(pattern), SubSeq(text, k + 1, Len(text)))
    ELSE /\ text # <<>>
         /\ Head(pattern) = "." \/ LowerChar(Head(pattern)) = LowerChar(Head(text))
         /\ RegexMatch(Tail(pattern), Tail(text))

\* Faulty variant: the first record of the list is always dropped.
BaseApplyQueryFilterDropFirst(items, query) ==
    [exc |-> "", items |-> IF items = <<>> THEN <<>> ELSE Tail(items)]

\* BaseMockService._apply_query_filter(items, query): [exc, items]
BaseApplyQueryFilter(items, query) ==
    IF query = <<>> \/ query = << <<>> >> THEN [exc |-> "", items |-> items]
    ELSE LET eq_match == BaseMatchEquality(query[1])
             like_match == BaseMatchLike(query[1])
             asInt == PyInt(StrV(eq_match.value))
             value == IF asInt.ok THEN IntV(asInt.n) ELSE StrV(eq_match.value)
         IN  IF eq_match.ok
             THEN [exc |-> "",
                   items |-> SelectSeq(items, LAMBDA item :
                       LET g == Get(item, FieldNamed(eq_match.field))
                       IN  g.has /\ PyEq(g.v, value))]
             ELSE IF like_match.ok
             THEN [exc |-> "",
                   items |-> SelectSeq(items, LAMBDA item :
                       LET g == Get(item, FieldNamed(like_match.field))
                       IN  /\ g.has
                           /\ Truthy(g.v)
                           /\ RegexMatch(like_match.value, PyStr(g.v)))]
             ELSE [exc |-> "", items |-> items]

(***************************************************************************)
(* The state.                                                              *)
(***************************************************************************)
VARIABLES
    cls,        \* the loader class this behaviour follows
    instance,   \* cls._instance: a loader object, or NoObj for None
    data,       \* cls._data: <<>> for None, <<document>> once loaded
    heap,       \* the loader objects ever created: object id -> attributes
    reads,      \* history: times the source document was opened since the last reset
    epoch,      \* history: number of reset() calls so far (the session number)
    holders,    \* the clients, services and loader references callers keep
    result,     \* the last call and what it returned or raised
    pgImpl,     \* pagination: whose pages the walk fetches (service or sales client)
    pgItems,    \* pagination: the list being paged
    pgLimit,    \* pagination: the page size of the walk
    pgOffset,   \* pagination: the next offset of the walk
    pgPages,    \* pagination: the pages the walk has fetched so far
    pgDone,     \* pagination: the walk saw has_more = False
    threads     \* concurrency: each thread's position in the constructor it runs

vars == <<cls, instance, data, heap, reads, epoch, holders, result,
          pgImpl, pgItems, pgLimit, pgOffset, pgPages, pgDone, threads>>

loaderVars == <<cls, instance, data, heap, reads, epoch, holders>>
pgVars == <<pgImpl, pgItems, pgLimit, pgOffset, pgPages, pgDone>>

\* _instance = None
NoObj == 0

\* An object as __new__ leaves it: _initialized False, nothing else set.
\* data_path and indexes are <<>> while the attribute does not exist.
FreshObj == [initialized |-> FALSE, data_path |-> <<>>, indexes |-> <<>>]

\* The loader state as one value, for the operators below.
World == [instance |-> instance, data |-> data, heap |-> heap,
          reads |-> reads, epoch |-> epoch]

(***************************************************************************)
(* The loader: __new__, __init__, _load_data, _build_indexes, reset.       *)
(***************************************************************************)
\* Faulty variant: __new__ without the "_instance is None" test.
LoaderNewAlways(w) ==
    [w EXCEPT !.heap = Append(@, FreshObj), !.instance = Len(w.heap) + 1]

\* __new__: the existing instance, or a new uninitialized one stored in _instance.
LoaderNew(w) ==
    IF w.instance = NoObj
    THEN [w EXCEPT !.heap = Append(@, FreshObj), !.instance = Len(w.heap) + 1]
    ELSE w

\* _load_data of object o: FileNotFoundError when the path does not exist,
\* else the class attribute _data becomes the parsed document.
LoadData(c, w, o) ==
    LET path == w.heap[o].data_path[1]
    IN  IF ~Exists(c, path)
        THEN [w |-> w, exc |-> "FileNotFoundError"]
        ELSE [w |-> [w EXCEPT !.data = <<Files(c)[path]>>, !.reads = @ + 1],
              exc |-> ""]

\* _build_indexes of object o: the indexes of the class's current document
\* (the data property) become attributes of o.
SetIndexes(c, w, o) ==
    IF w.data = <<>>
    THEN [w |-> w, exc |-> "RuntimeError"]
    ELSE [w |-> [w EXCEPT !.heap[o].indexes = <<BuildIndexes(c, w.data[1])>>],
          exc |-> ""]

\* Faulty variant: __init__ without the "_initialized" early return.
LoaderInitAlways(c, w, o, p) ==
    LET path == IF p = NoPath THEN DefaultPath ELSE p
        w1 == [w EXCEPT !.heap[o].data_path = <<path>>]
        ld == LoadData(c, w1, o)
        ix == SetIndexes(c, ld.w, o)
    IN  IF ld.exc # "" THEN ld
        ELSE IF ix.exc # "" THEN ix
        ELSE [w |-> [ix.w EXCEPT !.heap[o].initialized = TRUE], exc |-> ""]

\* __init__ of object o with argument p.
LoaderInit(c, w, o, p) ==
    IF w.heap[o].initialized
    THEN [w |-> w, exc |-> ""]
    ELSE LET path == IF p = NoPath THEN DefaultPath ELSE p
             w1 == [w EXCEPT !.heap[o].data_path = <<path>>]
             ld == LoadData(c, w1, o)
             ix == SetIndexes(c, ld.w, o)
         IN  IF ld.exc # "" THEN ld
             ELSE IF ix.exc # "" THEN ix
             ELSE [w |-> [ix.w EXCEPT !.heap[o].initialized = TRUE], exc |-> ""]

\* The call cls(p): __new__, then __init__ on what it returned.
LoaderCall(c, w, p) ==
    LET w1 == LoaderNew(w)
        r == LoaderInit(c, w1, w1.instance, p)
    IN  [w |-> r.w, exc |-> r.exc, ref |-> w1.instance]

\* Faulty variant: reset() that clears _data but keeps _instance.
LoaderResetKeepsInstance(w) ==
    [w EXCEPT !.data = <<>>, !.reads = 0, !.epoch = @ + 1]

\* reset(): both class attributes become None. (The history variables start
\* a new session.)
LoaderReset(w) ==
    [w EXCEPT !.instance = NoObj, !.data = <<>>, !.reads = 0, !.epoch = @ + 1]

\* The client constructors: reset first when a path is given, then cls(p).
ClientInit(c, w, p) ==
    LoaderCall(c, IF p # NoPath THEN LoaderReset(w) ELSE w, p)

\* BaseMockService(None) and SalesOrderMockOperations(None): a loader, resp. a
\* client, constructed without a path.
ServiceInit(c, w) ==
    IF c = "MockDataLoader" THEN LoaderCall(c, w, NoPath) ELSE ClientInit(c, w, NoPath)

(***************************************************************************)
(* Reads: the loader's properties and lookups, the purchase-order service, *)
(* the sales client.                                                       *)
(***************************************************************************)
\* The data property of object o: the class attribute _data, whoever asks;
\* RuntimeError while it is None.
DataProp(w, o) ==
    IF w.data = <<>> THEN [exc |-> "RuntimeError", d |-> <<>>]
    ELSE [exc |-> "", d |-> w.data]

\* The list properties (purchase_orders, orders, ...): self.data.get(name, [])
EntityList(w, o, name) ==
    LET dp == DataProp(w, o)
    IN  IF dp.exc # "" THEN [exc |-> dp.exc, items |-> <<>>]
        ELSE [exc |-> "", items |-> DataGet(dp.d[1], name)]

\* The get_* lookups of object o (get_purchase_order, get_order, ...):
\* self.<index>.get(key), None (has = FALSE) for a key the index lacks.
IndexGet(w, o, index, key) ==
    LET ix == w.heap[o].indexes[1][index]
    IN  IF key \in DOMAIN ix THEN [has |-> TRUE, rec |-> <<ix[key]>>]
        ELSE [has |-> FALSE, rec |-> <<>>]

\* The fields PurchaseOrder requires (and the optional ones the documents
\* use), with the type each must have.
PurchaseOrderFields ==
    [required |-> [POHeaderId |-> "int", OrderNumber |-> "str", Status |-> "str",
                   StatusCode |-> "str", Supplier |-> "str", SupplierId |-> "int",
                   ProcurementBU |-> "str", ProcurementBUId |-> "int", Currency |-> "str"],
     optional |-> [SupplierSiteId |-> "int", Description |-> "str"]]

\* A value pydantic accepts for a field type: a str field takes a string, an
\* int field an integer or a string that reads as one.
TypeOk(v, type) ==
    IF type = "str" THEN v.t = "str" ELSE PyInt(v).ok

\* model_validate: every required field present, every known field of its type.
ModelValidate(rec, fields) ==
    /\ \A f \in DOMAIN fields.required :
           f \in DOMAIN rec /\ TypeOk(rec[f], fields.required[f])
    /\ \A f \in DOMAIN fields.optional :
           f \in DOMAIN rec => TypeOk(rec[f], fields.optional[f])

CompoundMarker ==
    << "A", "A", "B", "O", "R", "A", "Q", "L", "E", "A", "B", "O", "R", "A", "Q", "L", "E" >>

RECURSIVE Remove(_, _)
\* s.replace(old, ""): every occurrence of old, found left to right, is dropped.
Remove(s, old) ==
    IF Len(s) < Len(old) THEN s
    ELSE IF SubSeq(s, 1, Len(old)) = old
         THEN Remove(SubSeq(s, Len(old) + 1, Len(s)), old)
         ELSE <<Head(s)>> \o Remove(Tail(s), old)

\* What a read returns: the exception raised ("" for none), the identifier its
\* message carries, the records returned, and the envelope's fields.
Answer(exc) ==
    [exc |-> exc, msg |-> "", msgId |-> <<>>, status_code |-> 0,
     items |-> <<>>, has_more |-> FALSE, count |-> 0, limit |-> 0, offset |-> 0]

\* Faulty variant: get_by_id returning nothing for an absent key instead of raising.
ServiceGetByIdQuiet(w, o, po_id) ==
    LET header == PyInt(po_id)
        po_data == IndexGet(w, o, "purchase_orders_by_id", IntV(header.n))
    IN  IF ~header.ok THEN Answer("ValueError")
        ELSE IF ~po_data.has THEN Answer("")
        ELSE [Answer("") EXCEPT !.items = po_data.rec]

\* MockPurchaseOrderService.get_by_id on a service holding loader o.
ServiceGetById(w, o, po_id) ==
    LET first == PyInt(po_id)
        stripped == StrV(Remove(po_id.s, CompoundMarker))
        header == IF first.ok THEN first ELSE PyInt(stripped)
        po_data == IndexGet(w, o, "purchase_orders_by_id", IntV(header.n))
    IN  IF ~header.ok
        THEN [Answer("ValueError") EXCEPT
                 !.msg = "invalid literal for int() with base 10: ",
                 !.msgId = stripped.s]
        ELSE IF ~po_data.has
        THEN [Answer("ValueError") EXCEPT
                 !.msg = "Purchase order not found: ", !.msgId = PyStr(po_id)]
        ELSE IF ~ModelValidate(po_data.rec[1], PurchaseOrderFields)
        THEN Answer("ValidationError")
        ELSE [Answer("") EXCEPT !.items = po_data.rec]

SupplierFields ==
    [required |-> [SupplierId |-> "int", Supplier |-> "str"],
     optional |-> [SupplierNumber |-> "str", Status |-> "str", StatusCode |-> "str"]]

\* MockSupplierService.get_by_id on a service holding loader o.
SupplierGetById(w, o, supplier_id) ==
    LET supplier_data == IndexGet(w, o, "suppliers_by_id", supplier_id)
    IN  IF ~supplier_data.has
        THEN [Answer("ValueError") EXCEPT
                 !.msg = "Supplier not found: ", !.msgId = PyStr(supplier_id)]
        ELSE IF ~ModelValidate(supplier_data.rec[1], SupplierFields)
        THEN Answer("ValidationError")
        ELSE [Answer("") EXCEPT !.items = supplier_data.rec]

\* SalesOrderMockClient.get_customer and get_product on a client holding
\* loader o: the stored record itself, or the not-found error.
SalesGetEntity(w, o, what, id) ==
    LET index == IF what = "Customer" THEN "customers_by_id" ELSE "products_by_id"
        found == IndexGet(w, o, index, id)
    IN  IF ~found.has
        THEN [Answer("SalesOrderMockNotFoundError") EXCEPT
                 !.msg = what \o " not found: ", !.msgId = PyStr(id),
                 !.status_code = 404]
        ELSE [Answer("") EXCEPT !.items = found.rec]

\* SalesOrderMockClient.get_order on a client holding loader o.
SalesGetOrder(w, o, order_id, include_lines) ==
    LET order == IndexGet(w, o, "orders_by_id", order_id)
        copy == order.rec[1]
        shaped == IF include_lines /\ "lines" \in DOMAIN copy
                  THEN [copy EXCEPT !.lines = [items |-> @]]
                  ELSE IF ~include_lines
                  THEN [f \in DOMAIN copy \ {"lines"} |-> copy[f]]
                  ELSE copy
    IN  IF ~order.has
        THEN [Answer("SalesOrderMockNotFoundError") EXCEPT
                 !.msg = "Order not found: ", !.msgId = PyStr(order_id),
                 !.status_code = 404]
        ELSE [Answer("") EXCEPT !.items = <<shaped>>]

\* Faulty variant: list paginating the whole dataset first, then filtering and
\* sorting the page.
ServiceListQueryPageFirst(w, o, limit, offset, query, order_by) ==
    LET all == EntityList(w, o, "purchaseOrders")
        Envelope(sorted_items) ==
            [Answer(sorted_items.exc) EXCEPT
                !.items = sorted_items.items, !.count = Len(sorted_items.items),
                !.has_more = (offset + limit) < Len(all.items),
                !.limit = limit, !.offset = offset]
        Sorted(filtered) == Local(ApplyOrderBy(filtered.items, order_by), Envelope)
        Filtered(page) == Local(BaseApplyQueryFilter(page.items, query), Sorted)
        Paginated(all_items) == Local(ApplyPagination(all_items, limit, offset), Filtered)
    IN  IF all.exc # "" THEN Answer(all.exc)
        ELSE Local(SelectSeq(all.items, LAMBDA po : "POHeaderId" \in DOMAIN po), Paginated)

\* MockPurchaseOrderService.list(limit, offset, query, order_by): the records
\* with a POHeaderId, filtered, sorted, paginated, validated.
ServiceListQuery(w, o, limit, offset, query, order_by) ==
    LET all == EntityList(w, o, "purchaseOrders")
        Envelope(page) ==
            IF \E i \in 1..Len(page.items) :
                   ~ModelValidate(page.items[i], PurchaseOrderFields)
            THEN Answer("ValidationError")
            ELSE [Answer("") EXCEPT
                     !.items = page.items, !.count = Len(page.items),
                     !.has_more = page.has_more, !.limit = limit, !.offset = offset]
        Paginated(sorted_items) ==
            IF sorted_items.exc # "" THEN Answer(sorted_items.exc)
            ELSE Local(ApplyPagination(sorted_items.items, limit, offset), Envelope)
        Sorted(filtered) == Local(ApplyOrderBy(filtered.items, order_by), Paginated)
        Filtered(all_items) == Local(BaseApplyQueryFilter(all_items, query), Sorted)
    IN  IF all.exc # "" THEN Answer(all.exc)
        ELSE Local(SelectSeq(all.items, LAMBDA po : "POHeaderId" \in DOMAIN po), Filtered)

\* list(limit, offset, order_by) without a query, which the filter passes through.
ServiceList(w, o, limit, offset, order_by) ==
    ServiceListQuery(w, o, limit, offset, <<>>, order_by)

\* The envelope get_orders builds from a filtered list: count is the total.
SalesPage(items, limit, offset) ==
    LET page == SalesApplyPagination(items, limit, offset)
    IN  [Answer("") EXCEPT
            !.items = page.items, !.count = page.total, !.limit = limit,
            !.offset = offset, !.has_more = (offset + limit) < page.total]

\* SalesOrderMockClient.get_orders(params) without "q": params.limit and
\* params.offset are <<>> when the key is absent, else <<string>>.
SalesGetOrders(w, o, params) ==
    LET limit == PyInt(IF params.limit = <<>> THEN StrV(<<"1", "0", "0">>) ELSE params.limit[1])
        offset == PyInt(IF params.offset = <<>> THEN StrV(<<"0">>) ELSE params.offset[1])
        all == EntityList(w, o, "salesOrders")
    IN  IF ~limit.ok \/ ~offset.ok THEN Answer("ValueError")
        ELSE IF all.exc # "" THEN Answer(all.exc)
        ELSE SalesPage(all.items, limit.n, offset.n)

(***************************************************************************)
(* What a call leaves in result.                                           *)
(***************************************************************************)
Result(op, exc) ==
    [op |-> op, exc |-> exc, path |-> NoPath, ref |-> NoObj, arg |-> IntV(0),
     order_by |-> <<>>, answer |-> Answer(exc)]

InBounds(w) ==
    /\ Len(w.heap) <= MaxObjs
    /\ w.epoch <= MaxEpoch
    /\ w.reads <= MaxReads

SetWorld(w) ==
    /\ instance' = w.instance
    /\ data' = w.data
    /\ heap' = w.heap
    /\ reads' = w.reads
    /\ epoch' = w.epoch

\* The caller keeps the loader reference a successful constructor gave it (in
\* the client or service it built, or bare), while there is room.
Keep(r) ==
    IF r.exc = "" /\ Len(holders) < MaxHolders
    THEN Append(holders, [loader |-> r.ref, epoch |-> r.w.epoch])
    ELSE holders

\* MockDataLoader(p), SalesOrderDataLoader(p)
NewLoader(p) ==
    LET r == LoaderCall(cls, World, p)
    IN  /\ InBounds(r.w)
        /\ SetWorld(r.w)
        /\ holders' = Keep(r)
        /\ result' = [Result("loader", r.exc) EXCEPT !.path = p, !.ref = r.ref]
        /\ UNCHANGED <<cls, pgVars, threads>>

\* OracleFusionMockClient(p), SalesOrderMockClient(data_path=p)
NewClient(p) ==
    LET r == ClientInit(cls, World, p)
    IN  /\ InBounds(r.w)
        /\ SetWorld(r.w)
        /\ holders' = Keep(r)
        /\ result' = [Result("client", r.exc) EXCEPT !.path = p, !.ref = r.ref]
        /\ UNCHANGED <<cls, pgVars, threads>>

\* A service built without a loader, SalesOrderMockOperations() without a client.
NewService ==
    LET r == ServiceInit(cls, World)
    IN  /\ InBounds(r.w)
        /\ SetWorld(r.w)
        /\ holders' = Keep(r)
        /\ result' = [Result("service", r.exc) EXCEPT !.ref = r.ref]
        /\ UNCHANGED <<cls, pgVars, threads>>

\* MockDataLoader.reset(), SalesOrderDataLoader.reset(), reset_data().
Reset ==
    LET w == LoaderReset(World)
    IN  /\ InBounds(w)
        /\ SetWorld(w)
        /\ result' = Result("reset", "")
        /\ UNCHANGED <<cls, holders, pgVars, threads>>

\* Identifiers and list parameters callers pass.
PoIds ==
    { StrV(<<"1">>), StrV(<<"2">>), StrV(<<"9">>), StrV(<<"x">>),
      StrV(CompoundMarker \o <<"4">>), IntV(4) }
OrderIds == { StrV(<<"1">>), StrV(<<"3">>), StrV(<<"9">>) }
OrderBys == { <<>>, <<"OrderNumber", ":", "desc">>, <<"SupplierSiteId">> }
ParamStrings == { <<>>, <<StrV(<<"1">>)>>, <<StrV(<<"x">>)>> }

\* service.get_by_id(po_id) on the service of holder h
GetById(h, po_id) ==
    /\ cls = "MockDataLoader"
    /\ result' = [Result("get_by_id", "") EXCEPT
                     !.ref = holders[h].loader, !.arg = po_id,
                     !.answer = ServiceGetById(World, holders[h].loader, po_id)]
    /\ UNCHANGED <<loaderVars, pgVars, threads>>

\* client.get_order(order_id, include_lines) on the client of holder h
GetOrder(h, order_id, include_lines) ==
    /\ cls = "SalesOrderDataLoader"
    /\ result' = [Result("get_order", "") EXCEPT
                     !.ref = holders[h].loader, !.arg = order_id,
                     !.answer = SalesGetOrder(World, holders[h].loader, order_id,
                                              include_lines)]
    /\ UNCHANGED <<loaderVars, pgVars, threads>>

\* suppliers.get_by_id(supplier_id) on the service of holder h
GetSupplier(h, supplier_id) ==
    /\ cls = "MockDataLoader"
    /\ result' = [Result("get_supplier", "") EXCEPT
                     !.ref = holders[h].loader, !.arg = supplier_id,
                     !.answer = SupplierGetById(World, holders[h].loader, supplier_id)]
    /\ UNCHANGED <<loaderVars, pgVars, threads>>

\* client.get_customer(id), client.get_product(id) on the client of holder h
GetEntity(h, what, id) ==
    /\ cls = "SalesOrderDataLoader"
    /\ result' = [Result("get_" \o what, "") EXCEPT
                     !.ref = holders[h].loader, !.arg = id,
                     !.answer = SalesGetEntity(World, holders[h].loader, what, id)]
    /\ UNCHANGED <<loaderVars, pgVars, threads>>

\* service.list(limit=limit, offset=offset, order_by=order_by) on holder h
List(h, limit, offset, order_by) ==
    /\ cls = "MockDataLoader"
    /\ result' = [Result("list", "") EXCEPT
                     !.ref = holders[h].loader,
                     !.answer = ServiceList(World, holders[h].loader, limit, offset,
                                           order_by)]
    /\ UNCHANGED <<loaderVars, pgVars, threads>>

\* client.get_orders({"limit": ..., "offset": ...}) on holder h
GetOrders(h, params) ==
    /\ cls = "SalesOrderDataLoader"
    /\ result' = [Result("get_orders", "") EXCEPT
                     !.ref = holders[h].loader,
                     !.answer = SalesGetOrders(World, holders[h].loader, params)]
    /\ UNCHANGED <<loaderVars, pgVars, threads>>

\* loader.get_purchase_order(key), loader.get_order(key) on the loader of holder h
LoaderGet(h, key) ==
    LET index == IF cls = "MockDataLoader" THEN "purchase_orders_by_id" ELSE "orders_by_id"
        got == IndexGet(World, holders[h].loader, index, key)
    IN  /\ result' = [Result("loader_get", "") EXCEPT
                         !.ref = holders[h].loader, !.arg = key,
                         !.answer = [Answer("") EXCEPT !.items = got.rec]]
        /\ UNCHANGED <<loaderVars, pgVars, threads>>

Init ==
    /\ cls \in Classes
    /\ instance = NoObj
    /\ data = <<>>
    /\ heap = <<>>
    /\ reads = 0
    /\ epoch = 0
    /\ holders = <<>>
    /\ result = Result("start", "")
    /\ pgImpl = "service"
    /\ pgItems = <<>>
    /\ pgLimit = 1
    /\ pgOffset = 0
    /\ pgPages = <<>>
    /\ pgDone = FALSE
    /\ threads = <<>>

Next ==
    \/ \E p \in PathArgs : NewLoader(p)
    \/ \E p \in PathArgs : NewClient(p)
    \/ NewService
    \/ Reset
    \/ \E h \in 1..Len(holders), id \in PoIds : GetById(h, id)
    \/ \E h \in 1..Len(holders), id \in OrderIds, lines \in BOOLEAN : GetOrder(h, id, lines)
    \/ \E h \in 1..Len(holders), id \in {IntV(10), IntV(30), StrV(<<"1", "0">>)} :
           GetSupplier(h, id)
    \/ \E h \in 1..Len(holders), what \in {"Customer", "Product"},
          id \in {StrV(<<"C", "1">>), StrV(<<"X", "1">>)} : GetEntity(h, what, id)
    \/ \E h \in 1..Len(holders), offset \in {0, 1}, ob \in OrderBys : List(h, 2, offset, ob)
    \/ \E h \in 1..Len(holders), l \in ParamStrings, o \in ParamStrings :
           GetOrders(h, [limit |-> l, offset |-> o])
    \/ \E h \in 1..Len(holders), n \in {1, 4} :
           LoaderGet(h, IF cls = "MockDataLoader" THEN IntV(n) ELSE StrV(<<CharOrder[Ord("0") + n]>>))

Spec == Init /\ [][Next]_vars

(***************************************************************************)
(* Pagination on its own: single calls with any limit and offset, and a    *)
(* caller walking the pages of a list at offsets 0, L, 2L, ...             *)
(***************************************************************************)
\* The list of n records that is paged.
PageList(n) == [i \in 1..n |-> PO(i, <<"P">>, <<"O">>, 10)]

\* The page of either implementation: the service's (items, has_more), or the
\* envelope get_orders builds.
PageOf(impl, items, limit, offset) ==
    IF impl = "service"
    THEN LET page == ApplyPagination(items, limit, offset)
         IN  [Answer("") EXCEPT !.items = page.items, !.has_more = page.has_more,
                                !.count = Len(page.items), !.limit = limit,
                                !.offset = offset]
    ELSE SalesPage(items, limit, offset)

\* One call of _apply_pagination with the given limit and offset.
Paginate(impl, limit, offset) ==
    /\ result' = [Result(impl, "") EXCEPT !.answer = PageOf(impl, pgItems, limit, offset)]
    /\ UNCHANGED <<loaderVars, pgVars, threads>>

\* The caller fetches the next page of its walk and goes on while has_more.
WalkPage ==
    LET page == PageOf(pgImpl, pgItems, pgLimit, pgOffset)
    IN  /\ ~pgDone
        /\ pgPages' = Append(pgPages, page.items)
        /\ pgOffset' = pgOffset + pgLimit
        /\ pgDone' = ~page.has_more
        /\ result' = [Result("walk", "") EXCEPT !.answer = page]
        /\ UNCHANGED <<loaderVars, pgImpl, pgItems, pgLimit, threads>>

PageInit ==
    /\ cls = "MockDataLoader"
    /\ instance = NoObj
    /\ data = <<>>
    /\ heap = <<>>
    /\ reads = 0
    /\ epoch = 0
    /\ holders = <<>>
    /\ result = Result("start", "")
    /\ pgImpl \in {"service", "sales"}
    /\ pgItems \in {PageList(n) : n \in 0..MaxLen}
    /\ pgLimit \in 1..MaxLimit
    /\ pgOffset = 0
    /\ pgPages = <<>>
    /\ pgDone = FALSE
    /\ threads = <<>>

PageNext ==
    \/ \E impl \in {"service", "sales"},
          limit \in (0 - MaxNeg)..MaxLimit, offset \in (0 - MaxNeg)..(MaxLen + 1) :
           Paginate(impl, limit, offset)
    \/ WalkPage

PageSpec == PageInit /\ [][PageNext]_vars

(***************************************************************************)
(* Queries on their own: the two filters applied to any short list of      *)
(* records, and the sales client's collection calls (get_orders,           *)
(* get_customers, get_products) over a loaded document holding that list.  *)
(***************************************************************************)
\* The records filtered: an integer, a string and a number field, each also
\* absent or of another type in some record.
QueryPool ==
    { [Id |-> IntV(1), Code |-> StrV(<<"A", "B", "C">>), Price |-> FloatV(150)],
      [Id |-> IntV(2), Code |-> StrV(<<"a", "b", "D">>)],
      [Id |-> IntV(10), Code |-> StrV(<<"1">>), Price |-> IntV(2)],
      [Id |-> StrV(<<"1">>), Code |-> StrV(<<"B", "A">>), Price |-> StrV(<<"1", ".", "5">>)],
      [Id |-> IntV(1), Code |-> StrV(<<"A", ".", "C">>), Price |-> IntV(0)] }

\* The lists of distinct records of the pool, in every order.
QueryLists ==
    UNION { { l \in [1..n -> QueryPool] : \A i, j \in 1..n : i # j => l[i] # l[j] }
            : n \in 0..MaxRecs }

\* Code=ABC
QCodeEq ==
    << "C", "o", "d", "e", "=", "A", "B", "C" >>

\* Code='ABC'
QCodeQuoted ==
    << "C", "o", "d", "e", "=", "'", "A", "B", "C", "'" >>

\* Id=1
QIdEq ==
    << "I", "d", "=", "1" >>

\* Price=1.5
QPriceEq ==
    << "P", "r", "i", "c", "e", "=", "1", ".", "5" >>

\* Code=1
QCodeEqDigit ==
    << "C", "o", "d", "e", "=", "1" >>

\* Ix=1
QUnknownField ==
    << "I", "x", "=", "1" >>

\* Id=1;Code=ABC
QBoth ==
    << "I", "d", "=", "1", ";", "C", "o", "d", "e", "=", "A", "B", "C" >>

\* ;Id=1;; Code=ABC ;
QBothGaps ==
    << ";", "I", "d", "=", "1", ";", ";", " ", "C", "o", "d", "e", "=", "A", "B", "C", " ", ";" >>

\* Id>=2
QIdGe ==
    << "I", "d", ">", "=", "2" >>

\* Id<=2
QIdLe ==
    << "I", "d", "<", "=", "2" >>

\* Code>=B
QCodeGe ==
    << "C", "o", "d", "e", ">", "=", "B" >>

\* Price<=1.5
QPriceLe ==
    << "P", "r", "i", "c", "e", "<", "=", "1", ".", "5" >>

\* oops
QMalformed ==
    << "o", "o", "p", "s" >>

\* oops;Id =
QMalformedPair ==
    << "o", "o", "p", "s", ";", "I", "d", " ", "=" >>

\* Id=1;oops
QIdEqMalformed ==
    << "I", "d", "=", "1", ";", "o", "o", "p", "s" >>

\* Code like 'AB*'
QLikePrefix ==
    << "C", "o", "d", "e", " ", "l", "i", "k", "e", " ", "'", "A", "B", "*", "'" >>

\* Code LIKE 'a%'
QLikeUpper ==
    << "C", "o", "d", "e", " ", "L", "I", "K", "E", " ", "'", "a", "%", "'" >>

\* Code like 'A.C*'
QLikeDot ==
    << "C", "o", "d", "e", " ", "l", "i", "k", "e", " ", "'", "A", ".", "C", "*", "'" >>

\* Code like 'B'
QLikeInner ==
    << "C", "o", "d", "e", " ", "l", "i", "k", "e", " ", "'", "B", "'" >>

\* The filter expressions passed: None and the texts above.
Queries ==
    { <<>> } \cup { <<q>> : q \in { <<>>, QCodeEq, QCodeQuoted, QIdEq, QPriceEq, QCodeEqDigit, QUnknownField,
                                    QBoth, QBothGaps, QIdGe, QIdLe, QCodeGe, QPriceLe,
                                    QMalformed, QMalformedPair, QIdEqMalformed,
                                    QLikePrefix, QLikeUpper, QLikeDot, QLikeInner } }

\* The text of a query as the value a call records: "" for None.
QueryArg(query) == IF query = <<>> THEN StrV(<<>>) ELSE StrV(query[1])

\* The document keys of the sales collections.
SalesCollections == [orders |-> "salesOrders", customers |-> "customers", products |-> "products"]

\* SalesOrderMockClient.get_orders / get_customers / get_products(params) on a
\* client holding loader o: params.limit, params.offset and params.q are <<>>
\* when the key is absent. Only get_orders reports hasMore.
SalesCollection(w, o, what, params) ==
    LET limit == PyInt(IF params.limit = <<>> THEN StrV(<<"1", "0", "0">>) ELSE params.limit[1])
        offset == PyInt(IF params.offset = <<>> THEN StrV(<<"0">>) ELSE params.offset[1])
        Envelope(page) ==
            [Answer("") EXCEPT
                !.items = page.items, !.count = page.total, !.limit = limit.n,
                !.offset = offset.n,
                !.has_more = (what = "orders" /\ (offset.n + limit.n) < page.total)]
        Paginated(items) ==
            IF items.exc # "" THEN Answer(items.exc)
            ELSE Local(SalesApplyPagination(items.items, limit.n, offset.n), Envelope)
        Filtered(all) ==
            IF all.exc # "" THEN Answer(all.exc)
            ELSE Local(SalesApplyQueryFilter(all.items, params.q), Paginated)
    IN  IF ~limit.ok \/ ~offset.ok THEN Answer("ValueError")
        ELSE Local(EntityList(w, o, SalesCollections[what]), Filtered)

\* _apply_query_filter(pgItems, query) of the services (impl = "base") or of
\* the sales client (impl = "sales").
ApplyFilter(impl, query) ==
    LET f == IF impl = "base" THEN BaseApplyQueryFilter(pgItems, query)
             ELSE SalesApplyQueryFilter(pgItems, query)
    IN  /\ result' = [Result(impl \o "_filter", f.exc) EXCEPT
                         !.path = IF query = <<>> THEN NoPath ELSE "q",
                         !.arg = QueryArg(query),
                         !.answer = [Answer(f.exc) EXCEPT !.items = f.items]]
        /\ UNCHANGED <<loaderVars, pgVars, threads>>

\* client.get_orders / get_customers / get_products({"q": ..., "limit": ...,
\* "offset": ...}) on holder h
GetCollection(h, what, params) ==
    /\ result' = [Result("get_" \o what, "") EXCEPT
                     !.ref = holders[h].loader,
                     !.path = IF params.q = <<>> THEN NoPath ELSE "q",
                     !.arg = QueryArg(params.q),
                     !.answer = SalesCollection(World, holders[h].loader, what, params)]
    /\ UNCHANGED <<loaderVars, pgVars, threads>>

\* A sales client constructed over a document whose three collections hold
\* the list to be filtered.
QueryInit ==
    /\ pgItems \in QueryLists
    /\ cls = "SalesOrderDataLoader"
    /\ instance = 1
    /\ data = << [salesOrders |-> pgItems, customers |-> pgItems, products |-> pgItems] >>
    /\ heap = << [initialized |-> TRUE, data_path |-> <<"Q">>,
                  indexes |-> <<BuildIndexes(cls, data[1])>>] >>
    /\ reads = 1
    /\ epoch = 0
    /\ holders = << [loader |-> 1, epoch |-> 0] >>
    /\ result = Result("start", "")
    /\ pgImpl = "sales"
    /\ pgLimit = 1
    /\ pgOffset = 0
    /\ pgPages = <<>>
    /\ pgDone = FALSE
    /\ threads = <<>>

QueryNext ==
    \/ \E impl \in {"base", "sales"}, query \in Queries : ApplyFilter(impl, query)
    \/ \E what \in DOMAIN SalesCollections, q \in {<<>>, <<QCodeGe>>, <<QIdGe>>},
          l \in {<<>>, <<StrV(<<"1">>)>>}, o \in {<<>>, <<StrV(<<"1">>)>>} :
           GetCollection(1, what, [limit |-> l, offset |-> o, q |-> q])

QuerySpec == QueryInit /\ [][QueryNext]_vars

(***************************************************************************)
(* A repository on its own: a loader constructed over a document whose     *)
(* purchase orders (resp. sales orders) are any short list of records --    *)
(* records sharing a key, records without a key -- and the lookups, lists,  *)
(* sorts and derived lookups made on it. No constructor or reset runs.      *)
(***************************************************************************)
\* A sales order carrying every field the Order model requires, with lines.
SalesOrder(id, num, code) ==
    [HeaderId |-> StrV(id), OrderNumber |-> StrV(num), StatusCode |-> StrV(code),
     CustomerId |-> StrV(<<"C", "1">>), TotalAmount |-> IntV(5),
     OrderedDate |-> StrV(<<"2", "0", "2", "4", "-", "0", "1", "-", "0", "1">>),
     lines |-> << [OrderLineId |-> StrV(<<"L", "1">>)] >>]

\* The fields Order requires, with the type each must have.
OrderFields ==
    [required |-> [HeaderId |-> "str", OrderNumber |-> "str", StatusCode |-> "str",
                   CustomerId |-> "str", TotalAmount |-> "int", OrderedDate |-> "str"],
     optional |-> [Description |-> "str"]]

\* The document key of the entity type a class's repositories are followed on.
MainEntity(c) == IF c = "MockDataLoader" THEN "purchaseOrders" ELSE "salesOrders"

\* The records a document may hold: two with the same key, one whose order
\* number is all digits, one whose order number is a single letter, one
\* without the key field.
RepoPool(c) ==
    IF c = "MockDataLoader"
    THEN { WithSite(PO(1, <<"P", "1">>, <<"O">>, 10), 5),
           PO(1, <<"P", "9">>, <<"C">>, 20),
           PO(2, <<"1", "2">>, <<"O">>, 10),
           WithSite(PO(3, <<"P">>, <<"C">>, 10), 7),
           Keyless }
    ELSE { SalesOrder(<<"1">>, <<"P", "1">>, <<"O">>),
           SalesOrder(<<"1">>, <<"P", "9">>, <<"C">>),
           SalesOrder(<<"2">>, <<"1", "2">>, <<"O">>),
           SalesOrder(<<"3">>, <<"P">>, <<"C">>),
           Keyless }

\* The lists of distinct records of the pool, in every order.
RepoLists(c) ==
    UNION { { l \in [1..n -> RepoPool(c)] : \A i, j \in 1..n : i # j => l[i] # l[j] }
            : n \in 0..MaxRecs }

\* The document holding the list as its main entity type.
RepoDocument(c, items) ==
    IF c = "MockDataLoader" THEN [purchaseOrders |-> items] ELSE [salesOrders |-> items]

\* The keys looked up and the order numbers asked for: "", P1, 12, P'1, P9.
RepoKeys(c) ==
    IF c = "MockDataLoader" THEN { IntV(1), IntV(2), IntV(9) }
    ELSE { StrV(<<"1">>), StrV(<<"2">>), StrV(<<"9">>) }

OrderNumbers ==
    { <<>>, <<"P", "1">>, <<"1", "2">>, <<"P", "'", "1">>, <<"P", "9">> }

\* SupplierId=10
QSupplierEq ==
    << "S", "u", "p", "p", "l", "i", "e", "r", "I", "d", "=", "1", "0" >>

\* The sort expressions passed, as tokens.
RepoOrderBys ==
    { <<>>, <<"OrderNumber">>, <<"OrderNumber", ":", "desc">>, <<"StatusCode">>,
      <<"StatusCode", ":", "desc">>, <<"SupplierId">>, <<"SupplierSiteId">>,
      <<"Description", ":", "desc">> }

\* f"OrderNumber='{order_number}'"
QuotedOrderNumber(order_number) ==
    FieldTable.OrderNumber \o <<"=", "'">> \o order_number \o <<"'">>

\* MockPurchaseOrderService.get_by_order_number(order_number) on a service
\* holding loader o: the first item of list(query=..., limit=1), or None.
ServiceGetByOrderNumber(w, o, order_number) ==
    LET First(found) ==
            IF found.exc # "" THEN Answer(found.exc)
            ELSE IF found.items = <<>> THEN Answer("")
            ELSE [Answer("") EXCEPT !.items = <<found.items[1]>>]
        List1(query) == Local(ServiceListQuery(w, o, 1, 0, <<query>>, <<>>), First)
    IN  Local(QuotedOrderNumber(order_number), List1)

\* SalesOrderMockOperations.get_order_by_number(order_number) over a client
\* holding loader o: get_orders with q and limit "1", then get_order of the
\* first item's HeaderId with its lines, parsed into an Order.
SalesGetOrderByNumber(w, o, order_number) ==
    LET Parse(order) ==
            LET parsed == [f \in DOMAIN order.items[1] \ {"lines"} |-> order.items[1][f]]
            IN  IF order.exc # "" THEN order
                ELSE IF ~ModelValidate(order.items[1], OrderFields)
                THEN Answer("ValidationError")
                ELSE [Answer("") EXCEPT !.items = <<parsed>>]
        Fetch(response) ==
            IF response.exc # "" THEN Answer(response.exc)
            ELSE IF response.items = <<>> THEN Answer("")
            ELSE IF "HeaderId" \notin DOMAIN response.items[1] THEN Answer("KeyError")
            ELSE Local(SalesGetOrder(w, o, response.items[1].HeaderId, TRUE), Parse)
        GetOrders1(params) == Local(SalesCollection(w, o, "orders", params), Fetch)
    IN  Local([q |-> << FieldTable.OrderNumber \o <<"=">> \o order_number >>,
               limit |-> << StrV(<<"1">>) >>, offset |-> <<>>], GetOrders1)

\* loader.purchase_orders, loader.orders: the list property of holder h's loader
LoaderList(h) ==
    /\ result' = [Result("loader_list", "") EXCEPT
                     !.ref = holders[h].loader,
                     !.answer = LET all == EntityList(World, holders[h].loader, MainEntity(cls))
                                IN  [Answer(all.exc) EXCEPT !.items = all.items]]
    /\ UNCHANGED <<loaderVars, pgVars, threads>>

\* service.list(limit=, offset=, query=, order_by=) on holder h
ListQuery(h, limit, offset, query, order_by) ==
    /\ cls = "MockDataLoader"
    /\ result' = [Result("list", "") EXCEPT
                     !.ref = holders[h].loader,
                     !.path = IF query = <<>> THEN NoPath ELSE "q",
                     !.arg = QueryArg(query), !.order_by = order_by,
                     !.answer = ServiceListQuery(World, holders[h].loader, limit, offset,
                                                 query, order_by)]
    /\ UNCHANGED <<loaderVars, pgVars, threads>>

\* service._apply_order_by(pgItems, order_by)
SortItems(order_by) ==
    LET sorted_items == ApplyOrderBy(pgItems, order_by)
    IN  /\ cls = "MockDataLoader"
        /\ result' = [Result("order_by", sorted_items.exc) EXCEPT
                         !.arg = StrV(order_by),
                         !.answer = [Answer(sorted_items.exc) EXCEPT
                                        !.items = sorted_items.items]]
        /\ UNCHANGED <<loaderVars, pgVars, threads>>

\* purchase_orders.get_by_order_number(n), operations.get_order_by_number(n)
GetByNumber(h, order_number) ==
    /\ result' = [Result("get_by_number", "") EXCEPT
                     !.ref = holders[h].loader, !.arg = StrV(order_number),
                     !.answer = IF cls = "MockDataLoader"
                                THEN ServiceGetByOrderNumber(World, holders[h].loader,
                                                             order_number)
                                ELSE SalesGetOrderByNumber(World, holders[h].loader,
                                                           order_number)]
    /\ UNCHANGED <<loaderVars, pgVars, threads>>

\* The index and key of the repository's main entity.
MainIndex(c) == IF c = "MockDataLoader" THEN "purchase_orders_by_id" ELSE "orders_by_id"

\* Faulty variant: get_order dropping "lines" from the stored dict itself when
\* the lines are not wanted (no copy taken).
StoredAfterGetOrderPopped(order, include_lines) ==
    IF include_lines THEN order ELSE [f \in DOMAIN order \ {"lines"} |-> order[f]]

\* The stored dict once get_order has shaped its answer: result = order.copy()
\* is a new dict, and wrapping or dropping "lines" changes result only.
StoredAfterGetOrder(order, include_lines) == order

\* The loader state once the dict object `old`, which object o's index holds
\* under key and the document's list holds too, has the contents new.
StoreRecord(c, w, o, key, old, new) ==
    [w EXCEPT !.heap[o].indexes[1][MainIndex(c)][key] = new,
              !.data[1][MainEntity(c)] =
                  [i \in DOMAIN @ |-> IF @[i] = old THEN new ELSE @[i]]]

\* The loader state after client.get_order(order_id, include_lines).
SalesGetOrderWorld(w, o, order_id, include_lines) ==
    LET order == IndexGet(w, o, "orders_by_id", order_id)
    IN  IF ~order.has THEN w
        ELSE StoreRecord("SalesOrderDataLoader", w, o, order_id, order.rec[1],
                         StoredAfterGetOrder(order.rec[1], include_lines))

\* The simulated writes of the sales client and the get_order call each makes:
\* get_order with and without lines, update_order, patch in its two calling
\* conventions, post and delete (which answer without looking anything up).
SalesWrites ==
    [get_order |-> <<TRUE>>, get_order_no_lines |-> <<FALSE>>,
     update_order |-> <<TRUE>>, patch_path |-> <<TRUE>>, patch |-> <<FALSE>>,
     post |-> <<>>, delete |-> <<>>]

\* client.<verb>(order_id, ...) on the client of holder h
SalesWrite(h, verb, order_id) ==
    LET o == holders[h].loader
        include_lines == SalesWrites[verb]
    IN  /\ cls = "SalesOrderDataLoader"
        /\ result' = [Result("write", "") EXCEPT
                         !.ref = o, !.path = verb, !.arg = order_id,
                         !.answer = IF include_lines = <<>>
                                    THEN [Answer("") EXCEPT !.msg = "success"]
                                    ELSE SalesGetOrder(World, o, order_id, include_lines[1])]
        /\ SetWorld(IF include_lines = <<>> THEN World
                    ELSE SalesGetOrderWorld(World, o, order_id, include_lines[1]))
        /\ UNCHANGED <<cls, holders, pgVars, threads>>

\* The simulated actions of the purchase order service.
ServiceActions == {"cancel", "close", "communicate", "acknowledge"}

\* service.cancel(po_id), close, communicate, acknowledge: get_by_id, then an
\* action response naming the order.
ServiceAction(w, o, action, po_id) ==
    LET po == ServiceGetById(w, o, po_id)
    IN  IF po.exc # "" THEN po
        ELSE [Answer("") EXCEPT !.msg = action, !.msgId = po.items[1].OrderNumber.s]

\* service.<action>(po_id) on the service of holder h: nothing is assigned.
SimulatedAction(h, action, po_id) ==
    /\ cls = "MockDataLoader"
    /\ result' = [Result("action", "") EXCEPT
                     !.ref = holders[h].loader, !.path = action, !.arg = po_id,
                     !.answer = ServiceAction(World, holders[h].loader, action, po_id)]
    /\ UNCHANGED <<loaderVars, pgVars, threads>>

\* A loader constructed over the document, held by one client.
RepoInit ==
    /\ cls \in Classes
    /\ pgItems \in RepoLists(cls)
    /\ instance = 1
    /\ data = << RepoDocument(cls, pgItems) >>
    /\ heap = << [initialized |-> TRUE, data_path |-> <<"R">>,
                  indexes |-> <<BuildIndexes(cls, data[1])>>] >>
    /\ reads = 1
    /\ epoch = 0
    /\ holders = << [loader |-> 1, epoch |-> 0] >>
    /\ result = Result("start", "")
    /\ pgImpl = "service"
    /\ pgLimit = 1
    /\ pgOffset = 0
    /\ pgPages = <<>>
    /\ pgDone = FALSE
    /\ threads = <<>>

RepoNext ==
    \/ \E key \in RepoKeys(cls) : LoaderGet(1, key)
    \/ LoaderList(1)
    \/ \E limit \in {1, 2}, offset \in {0, 1}, query \in {<<>>, <<QSupplierEq>>},
          order_by \in {<<>>, <<"OrderNumber", ":", "desc">>} :
           ListQuery(1, limit, offset, query, order_by)
    \/ (/\ cls = "SalesOrderDataLoader"
        /\ \E l \in {<<>>, <<StrV(<<"1">>)>>}, o \in {<<>>, <<StrV(<<"1">>)>>} :
               GetCollection(1, "orders", [limit |-> l, offset |-> o, q |-> <<>>]))
    \/ \E order_by \in RepoOrderBys : SortItems(order_by)
    \/ \E order_number \in OrderNumbers : GetByNumber(1, order_number)
    \/ \E verb \in DOMAIN SalesWrites, order_id \in RepoKeys(cls) :
           SalesWrite(1, verb, order_id)
    \/ \E action \in ServiceActions, po_id \in RepoKeys(cls) :
           SimulatedAction(1, action, po_id)

RepoSpec == RepoInit /\ [][RepoNext]_vars

(***************************************************************************)
(* Threads: constructors, reset() and lookups interleaved statement by     *)
(* statement; nothing in the loader takes a lock.                          *)
(***************************************************************************)
\* A thread outside any call. pc is the statement it runs next, self the object
\* __new__ gave it, path its data_path argument, doc the local `data` of
\* _build_indexes.
IdleThread == [pc |-> "idle", self |-> NoObj, path |-> NoPath, doc |-> <<>>]

\* The first index _build_indexes assigns.
FirstIndex(c) == IF c = "MockDataLoader" THEN "purchase_orders_by_id" ELSE "orders_by_id"

\* The thread moves on; a finished or failed constructor is reported.
Goto(t, pc, exc) ==
    /\ threads' = [threads EXCEPT ![t].pc = pc]
    /\ result' = IF pc \in {"done", "failed"}
                 THEN [Result("construct", exc) EXCEPT !.ref = threads[t].self]
                 ELSE result

\* cls(p), first statement of __new__: the test "cls._instance is None".
Call(t, p) ==
    /\ threads[t].pc \in {"idle", "done", "failed"}
    /\ threads' = [threads EXCEPT ![t] =
                      [pc |-> IF instance = NoObj THEN "create" ELSE "init",
                       self |-> instance, path |-> p, doc |-> <<>>]]
    /\ UNCHANGED <<loaderVars, result, pgVars>>

\* __new__, the branch taken on None: a new object, stored in _instance with
\* _initialized False, and returned.
Create(t) ==
    /\ threads[t].pc = "create"
    /\ Len(heap) < MaxObjs
    /\ heap' = Append(heap, FreshObj)
    /\ instance' = Len(heap) + 1
    /\ threads' = [threads EXCEPT ![t].pc = "init", ![t].self = Len(heap) + 1]
    /\ UNCHANGED <<cls, data, reads, epoch, holders, result, pgVars>>

\* __init__ up to self._data_path = ...: return at once when _initialized.
InitCheck(t) ==
    LET o == threads[t].self
        p == threads[t].path
    IN  /\ threads[t].pc = "init"
        /\ IF heap[o].initialized
           THEN Goto(t, "done", "") /\ UNCHANGED heap
           ELSE /\ heap' = [heap EXCEPT
                               ![o].data_path = <<IF p = NoPath THEN DefaultPath ELSE p>>]
                /\ Goto(t, "load", "")
        /\ UNCHANGED <<cls, instance, data, reads, epoch, holders, pgVars>>

\* self._load_data()
Load(t) ==
    LET ld == LoadData(cls, World, threads[t].self)
    IN  /\ threads[t].pc = "load"
        /\ InBounds(ld.w)
        /\ SetWorld(ld.w)
        /\ Goto(t, IF ld.exc = "" THEN "index" ELSE "failed", ld.exc)
        /\ UNCHANGED <<cls, holders, pgVars>>

\* _build_indexes up to the first index's empty dict: data = self.data raises
\* RuntimeError on None; an object indexed before loses its first index.
IndexBegin(t) ==
    LET o == threads[t].self
    IN  /\ threads[t].pc = "index"
        /\ IF data = <<>>
           THEN /\ Goto(t, "failed", "RuntimeError")
                /\ UNCHANGED heap
           ELSE /\ threads' = [threads EXCEPT ![t].pc = "fill", ![t].doc = data]
                /\ heap' = IF heap[o].indexes = <<>> THEN heap
                           ELSE [heap EXCEPT ![o].indexes[1][FirstIndex(cls)] = <<>>]
                /\ UNCHANGED result
        /\ UNCHANGED <<cls, instance, data, reads, epoch, holders, pgVars>>

\* the rest of _build_indexes: every index filled from the local `data`.
IndexEnd(t) ==
    /\ threads[t].pc = "fill"
    /\ heap' = [heap EXCEPT ![threads[t].self].indexes =
                                <<BuildIndexes(cls, threads[t].doc[1])>>]
    /\ Goto(t, "finish", "")
    /\ UNCHANGED <<cls, instance, data, reads, epoch, holders, pgVars>>

\* self._initialized = True, and the constructor returns.
Finish(t) ==
    /\ threads[t].pc = "finish"
    /\ heap' = [heap EXCEPT ![threads[t].self].initialized = TRUE]
    /\ Goto(t, "done", "")
    /\ UNCHANGED <<cls, instance, data, reads, epoch, holders, pgVars>>

\* cls.reset() called by some thread.
ThreadReset ==
    LET w == LoaderReset(World)
    IN  /\ InBounds(w)
        /\ SetWorld(w)
        /\ result' = Result("reset", "")
        /\ UNCHANGED <<cls, holders, pgVars, threads>>

\* loader.get_purchase_order(key) / get_order(key) by a thread whose
\* constructor has returned the loader.
ThreadGet(t, key) ==
    LET o == threads[t].self
    IN  /\ threads[t].pc = "done"
        /\ result' = [Result("thread_get", "") EXCEPT
                         !.ref = o, !.arg = key,
                         !.answer = [Answer("") EXCEPT
                                        !.items = IndexGet(World, o, FirstIndex(cls), key).rec]]
        /\ UNCHANGED <<loaderVars, pgVars, threads>>

ThreadInit ==
    /\ cls \in Classes
    /\ instance = NoObj
    /\ data = <<>>
    /\ heap = <<>>
    /\ reads = 0
    /\ epoch = 0
    /\ holders = <<>>
    /\ result = Result("start", "")
    /\ pgImpl = "service"
    /\ pgItems = <<>>
    /\ pgLimit = 1
    /\ pgOffset = 0
    /\ pgPages = <<>>
    /\ pgDone = FALSE
    /\ threads = [t \in 1..MaxThreads |-> IdleThread]

ThreadNext ==
    \/ \E t \in 1..MaxThreads, p \in {NoPath, "B"} : Call(t, p)
    \/ \E t \in 1..MaxThreads : Create(t)
    \/ \E t \in 1..MaxThreads : InitCheck(t)
    \/ \E t \in 1..MaxThreads : Load(t)
    \/ \E t \in 1..MaxThreads : IndexBegin(t)
    \/ \E t \in 1..MaxThreads : IndexEnd(t)
    \/ \E t \in 1..MaxThreads : Finish(t)
    \/ ThreadReset
    \/ \E t \in 1..MaxThreads :
           ThreadGet(t, IF cls = "MockDataLoader" THEN IntV(1) ELSE StrV(<<"1">>))

ThreadSpec == ThreadInit /\ [][ThreadNext]_vars

(***************************************************************************)
(* Properties.                                                             *)
(***************************************************************************)
\* The unfiltered list a holder's service or client returns.
ListOf(h) ==
    IF cls = "MockDataLoader"
    THEN ServiceList(World, holders[h].loader, 25, 0, <<>>)
    ELSE SalesGetOrders(World, holders[h].loader, [limit |-> <<>>, offset |-> <<>>])

\* Every record of a document, whatever its entity type.
RecordsOf(d) == UNION { {d[name][i] : i \in 1..Len(d[name])} : name \in DOMAIN d }

ConstructOps == {"loader", "client", "service"}
GetOps == {"get_by_id", "get_supplier", "get_order", "get_Customer", "get_Product", "loader_get"}
ListOps == {"list", "get_orders"}

\* C1: two clients, services or loader references constructed in the same
\* session (no reset between them) hold the same loader object, and their
\* unfiltered lists are equal in content and order.
C1_SingletonSharing ==
    \A h1, h2 \in 1..Len(holders) :
        holders[h1].epoch = holders[h2].epoch =>
            /\ holders[h1].loader = holders[h2].loader
            /\ ListOf(h1) = ListOf(h2)

\* Two holders of one session exist and a list call has just returned records.
C1_Witness ==
    /\ Len(holders) >= 2
    /\ holders[1].epoch = holders[2].epoch
    /\ result.op \in ListOps
    /\ result.answer.exc = ""
    /\ Len(result.answer.items) >= 2

\* C2: once a reset has happened and document B is the one loaded, every
\* get-by-key and every list, on any holder, returns only records of B.
C2_ResetIsolation ==
    (/\ epoch >= 1
     /\ data = <<Files(cls).B>>
     /\ result.op \in GetOps \cup ListOps)
        => \A i \in 1..Len(result.answer.items) :
               result.answer.items[i] \in RecordsOf(Files(cls).B)

\* C3: a constructor given an explicit path of an existing document, while
\* a document is loaded, leaves exactly that document and its indexes in
\* place: directly on the loader class, or through a client.
C3_ExplicitPathReplaces ==
    [][ \A p \in DOMAIN Files(cls) :
            ((NewLoader(p) \/ NewClient(p)) /\ data # <<>>)
                => /\ result'.exc = ""
                   /\ data' = <<Files(cls)[p]>>
                   /\ heap'[result'.ref].indexes = <<BuildIndexes(cls, Files(cls)[p])>> ]_vars

\* C4: within a session the source document is opened at most once, and a
\* construction without a path either finds the instance initialized and then
\* returns it leaving the loader untouched, or is the first of the session and
\* then reads and indexes the default document.
C4_LoadedOncePerSession ==
    [][ /\ reads' <= 1
        /\ (/\ result'.op \in ConstructOps
            /\ result'.path = NoPath
            /\ (NewLoader(NoPath) \/ NewClient(NoPath) \/ NewService)) =>
               IF instance # NoObj /\ heap[instance].initialized
               THEN /\ UNCHANGED <<instance, data, heap, reads, epoch>>
                    /\ result'.exc = ""
                    /\ result'.ref = instance
               ELSE /\ reads = 0
                    /\ reads' = 1
                    /\ result'.exc = ""
                    /\ data' = <<Files(cls)[DefaultPath]>>
                    /\ heap'[result'.ref].initialized
                    /\ heap'[result'.ref].indexes = <<BuildIndexes(cls, Files(cls)[DefaultPath])>> ]_vars

\* A second construction without a path has just returned the instance the
\* first one of the session loaded.
C4_Witness ==
    /\ result.op \in ConstructOps
    /\ result.path = NoPath
    /\ result.exc = ""
    /\ Len(holders) >= 2
    /\ holders[1] = holders[2]
    /\ holders[1].epoch = epoch
    /\ heap[instance].data_path = <<DefaultPath>>
    /\ reads = 1

\* C5: reset() leaves no instance and no document; the first construction
\* after a reset, given nothing or the path of an existing document, reads
\* that document once and returns a new, initialized instance carrying every
\* index of it.
C5_ResetThenReload ==
    [][ /\ (result'.op = "reset" /\ Reset) => (instance' = NoObj /\ data' = <<>>)
        /\ \A p \in {NoPath} \cup DOMAIN Files(cls) :
               (/\ epoch >= 1
                /\ instance = NoObj
                /\ result'.op \in ConstructOps
                /\ result'.path = p
                /\ (NewLoader(p) \/ NewClient(p) \/ (p = NoPath /\ NewService)))
                   => LET path == IF p = NoPath THEN DefaultPath ELSE p
                      IN  /\ result'.exc = ""
                          /\ reads' = 1
                          /\ data' = <<Files(cls)[path]>>
                          /\ instance' = result'.ref
                          /\ instance' \notin DOMAIN heap
                          /\ heap'[instance'].initialized
                          /\ heap'[instance'].indexes = <<BuildIndexes(cls, Files(cls)[path])>> ]_vars

\* Document B was loaded, a reset followed, and a construction without a path
\* has just loaded the default document into a second instance.
C5_Witness ==
    /\ epoch >= 1
    /\ result.op \in ConstructOps
    /\ result.path = NoPath
    /\ result.exc = ""
    /\ result.ref = 2
    /\ instance = 2
    /\ heap[1].initialized
    /\ heap[1].data_path = <<"B">>
    /\ data = <<Files(cls)[DefaultPath]>>
    /\ reads = 1

\* C6: a loader or client constructed with the path of a document that does
\* not exist raises FileNotFoundError, and leaves no document stored and no
\* initialized instance.
C6_MissingSourceFails ==
    (result.op \in {"loader", "client"} /\ result.path = "missing")
        => /\ result.exc = "FileNotFoundError"
           /\ data = <<>>
           /\ instance # NoObj => ~heap[instance].initialized

\* The index a get-by-identifier call consults, and the key it looks up: the
\* purchase-order service turns the identifier into an integer first.
LookupIndex ==
    [get_by_id |-> "purchase_orders_by_id", get_supplier |-> "suppliers_by_id",
     get_order |-> "orders_by_id", get_Customer |-> "customers_by_id",
     get_Product |-> "products_by_id"]
HeaderIdOf(po_id) ==
    IF PyInt(po_id).ok THEN PyInt(po_id)
    ELSE PyInt(StrV(Remove(po_id.s, CompoundMarker)))

\* C7: a get-by-identifier call whose identifier (for a purchase order: one
\* that reads as an integer) is absent from the index of the loader it
\* consults raises the not-found error -- ValueError on the procurement
\* services, SalesOrderMockNotFoundError with status 404 on the sales client --
\* with the identifier in its message, and returns no record.
C7_AbsentIdRaisesNotFound ==
    result.op \in DOMAIN LookupIndex =>
        LET key == IF result.op = "get_by_id"
                   THEN IntV(HeaderIdOf(result.arg).n) ELSE result.arg
            readable == result.op = "get_by_id" => HeaderIdOf(result.arg).ok
            index == heap[result.ref].indexes[1][LookupIndex[result.op]]
        IN  (readable /\ key \notin DOMAIN index) =>
                /\ result.answer.items = <<>>
                /\ result.answer.msgId = PyStr(result.arg)
                /\ IF cls = "MockDataLoader"
                   THEN /\ result.answer.exc = "ValueError"
                        /\ result.answer.msg \in {"Purchase order not found: ",
                                                  "Supplier not found: "}
                   ELSE /\ result.answer.exc = "SalesOrderMockNotFoundError"
                        /\ result.answer.status_code = 404

\* A lookup of an identifier no document holds has just raised.
C7_Witness ==
    /\ result.op \in {"get_by_id", "get_order"}
    /\ result.arg = StrV(<<"9">>)
    /\ result.answer.exc \in {"ValueError", "SalesOrderMockNotFoundError"}
    /\ result.answer.msgId = <<"9">>
    /\ result.answer.items = <<>>

\* C8: a list call returns a collection or raises the invalid-argument error
\* (ValueError for a limit or offset that is no number), nothing else.
C8_ListNeverRaises ==
    result.op \in ListOps => result.answer.exc \in {"", "ValueError"}

\* C9: a pagination call with limit >= 0 and offset >= 0 over a list of n
\* records returns min(limit, max(0, n - offset)) items, the records at
\* positions offset .. offset + limit - 1, and has_more = (offset + limit < n).
C9_PaginationFormula ==
    (/\ result.op \in {"service", "sales"}
     /\ result.answer.limit >= 0
     /\ result.answer.offset >= 0)
        => LET n == Len(pgItems)
               limit == result.answer.limit
               offset == result.answer.offset
               size == Min(limit, Max(0, n - offset))
           IN  /\ Len(result.answer.items) = size
               /\ \A i \in 1..size : result.answer.items[i] = pgItems[offset + i]
               /\ result.answer.has_more = (offset + limit < n)

\* A call has just returned a last page that is non-empty and not full.
C9_Witness ==
    /\ result.op \in {"service", "sales"}
    /\ result.answer.offset >= 1
    /\ Len(result.answer.items) >= 1
    /\ Len(result.answer.items) < result.answer.limit
    /\ ~result.answer.has_more

RECURSIVE Concat(_)
Concat(pages) == IF pages = <<>> THEN <<>> ELSE Head(pages) \o Concat(Tail(pages))

\* C10: in a walk with page size L >= 1 at offsets 0, L, 2L, ... the k-th page
\* is the records at positions (k-1)L+1 .. min(kL, n); has_more was false
\* exactly on the page that reached the end of the list; and the pages of a
\* finished walk concatenate to the list.
C10_PageWalk ==
    LET n == Len(pgItems)
        k == Len(pgPages)
    IN  /\ pgLimit >= 1
        /\ \A j \in 1..k :
               LET size == Min(pgLimit, n - (j - 1) * pgLimit)
               IN  /\ Len(pgPages[j]) = size
                   /\ \A i \in 1..size : pgPages[j][i] = pgItems[(j - 1) * pgLimit + i]
        /\ pgDone <=> (k >= 1 /\ k * pgLimit >= n)
        /\ pgDone => Concat(pgPages) = pgItems

\* A walk of at least two pages has just finished on a page that is not full.
C10_Witness ==
    /\ result.op = "walk"
    /\ pgDone
    /\ Len(pgPages) >= 2
    /\ Len(pgPages[Len(pgPages)]) < pgLimit

\* C11: a pagination call with a negative limit or a negative offset raises
\* an error instead of returning a page.
C11_NegativeRejected ==
    (/\ result.op \in {"service", "sales"}
     /\ result.answer.limit < 0 \/ result.answer.offset < 0)
        => result.answer.exc # ""

\* C12: the envelope of every list call that returns has count = len(items).
C12_CountIsPageLength ==
    (result.op \in ListOps /\ result.answer.exc = "")
        => result.answer.count = Len(result.answer.items)

\* The query of the call recorded in result.
QueryOf(r) == IF r.path = NoPath THEN <<>> ELSE <<r.arg.s>>

CollectionOps == {"get_orders", "get_customers", "get_products"}

\* C13: the envelope of get_orders, get_customers and get_products has count =
\* the number of records that pass the filter, whatever limit and offset are
\* (all records when there is no filter); its items are the page of those
\* records, and get_orders reports hasMore = (offset + limit < count).
C13_SalesCountIsTotal ==
    (result.op \in CollectionOps /\ result.answer.exc = "")
        => LET matching == SalesApplyQueryFilter(pgItems, QueryOf(result)).items
               a == result.answer
           IN  /\ a.count = Len(matching)
               /\ QueryOf(result) = <<>> => a.count = Len(pgItems)
               /\ a.items = PySlice(matching, a.offset, a.offset + a.limit)
               /\ result.op = "get_orders" => a.has_more = (a.offset + a.limit < a.count)

\* get_orders with limit 1 over two orders has just returned one item with
\* count 2 and hasMore true.
C13_Witness ==
    /\ result.op = "get_orders"
    /\ result.answer.exc = ""
    /\ result.answer.limit = 1
    /\ Len(result.answer.items) = 1
    /\ result.answer.count = 2
    /\ result.answer.has_more

FilterOps == {"base_filter", "sales_filter"}

\* The last call was a filter call with the expression q.
IsQuery(q) == result.op \in FilterOps /\ result.path = "q" /\ result.arg.s = q

\* The records of the filtered list that have the field with a value passing
\* Test, in the order of the list.
WithField(field, Test(_)) ==
    SelectSeq(pgItems, LAMBDA rec : field \in DOMAIN rec /\ Test(rec[field]))

IsText(v, text) == v.t = "str" /\ v.s = text
IsNumeral(v, hundredths) == v.t \in {"int", "float"} /\ Hundredths(v) = hundredths

\* The filter returned the list expected, without raising.
Returned(expected) == result.answer.exc = "" /\ result.answer.items = expected

\* C14: one clause Field=value, in either filter, returns the records whose
\* Field equals the literal, in list order: Code=ABC those with the text ABC,
\* Id=1 and Code=1 those with the number 1, a field no record has, none.
C14_EqualitySelects ==
    /\ IsQuery(QCodeEq) => Returned(WithField("Code", LAMBDA v : IsText(v, <<"A", "B", "C">>)))
    /\ IsQuery(QIdEq) => Returned(WithField("Id", LAMBDA v : IsNumeral(v, 100)))
    /\ IsQuery(QCodeEqDigit) => Returned(WithField("Code", LAMBDA v : IsNumeral(v, 100)))
    /\ IsQuery(QUnknownField) => Returned(<<>>)

\* Id=1 has just kept the second of two records and dropped the first.
C14_Witness ==
    /\ IsQuery(QIdEq)
    /\ Len(pgItems) = 2
    /\ Len(result.answer.items) = 1
    /\ result.answer.items[1] = pgItems[2]

\* C15: clauses joined by ";" are a conjunction in both filters, and empty
\* clauses between separators are ignored: Id=1;Code=ABC, with or without
\* empty clauses and blanks around, returns the records with Id 1 and Code ABC.
C15_Conjunction ==
    (IsQuery(QBoth) \/ IsQuery(QBothGaps))
        => Returned(SelectSeq(pgItems, LAMBDA rec :
               /\ IsNumeral(rec.Id, 100)
               /\ IsText(rec.Code, <<"A", "B", "C">>)))

\* C16: a clause without a recognizable operator restricts nothing and raises
\* nothing, in both filters: an expression of such clauses only returns every
\* record, and Id=1 followed by such a clause returns what Id=1 returns.
C16_MalformedIgnored ==
    /\ (IsQuery(QMalformed) \/ IsQuery(QMalformedPair)) => Returned(pgItems)
    /\ IsQuery(QIdEqMalformed) => Returned(WithField("Id", LAMBDA v : IsNumeral(v, 100)))

\* C17: the sales filter, given a clause Field>=v or Field<=v, returns,
\* without raising, the records whose Field is present and compares so with
\* v: numbers with a number, strings with a string by code point.
C17_Comparison ==
    result.op = "sales_filter" =>
        /\ IsQuery(QIdGe) => Returned(WithField("Id", LAMBDA v : IsNumber(v) /\ Hundredths(v) >= 200))
        /\ IsQuery(QIdLe) => Returned(WithField("Id", LAMBDA v : IsNumber(v) /\ Hundredths(v) <= 200))
        /\ IsQuery(QPriceLe) => Returned(WithField("Price", LAMBDA v : IsNumber(v) /\ Hundredths(v) <= 150))
        /\ IsQuery(QCodeGe) => Returned(WithField("Code", LAMBDA v : v.t = "str" /\ ~StrLess(v.s, <<"B">>)))

\* C18: the literal of an equality clause is an integer when it reads as one,
\* a decimal number when it reads as one with a point, else text, and only a
\* record value of that type can equal it: Id=1 returns the records whose Id
\* is the number 1 (not the text "1"), Price=1.5 those whose Price is the
\* number 1.5 (not the text "1.5"), Code=ABC those whose Code is the text ABC.
C18_LiteralCoercion ==
    /\ IsQuery(QIdEq) => Returned(WithField("Id", LAMBDA v : IsNumeral(v, 100)))
    /\ IsQuery(QPriceEq) => Returned(WithField("Price", LAMBDA v : IsNumeral(v, 150)))
    /\ IsQuery(QCodeEq) => Returned(WithField("Code", LAMBDA v : IsText(v, <<"A", "B", "C">>)))

\* text begins with prefix, letters compared without case.
BeginsWith(text, prefix) ==
    /\ Len(text) >= Len(prefix)
    /\ \A i \in 1..Len(prefix) : LowerChar(text[i]) = LowerChar(prefix[i])

\* C19: the services' filter, given Field like 'P*' (keyword in any case, "*"
\* or "%" as the wildcard), returns the records whose Field is present and not
\* empty and whose value, as text, begins with P without regard to case.
C19_LikePrefix ==
    /\ (result.op = "base_filter" /\ IsQuery(QLikePrefix))
           => Returned(WithField("Code", LAMBDA v : Truthy(v) /\ BeginsWith(PyStr(v), <<"A", "B">>)))
    /\ (result.op = "base_filter" /\ IsQuery(QLikeUpper))
           => Returned(WithField("Code", LAMBDA v : Truthy(v) /\ BeginsWith(PyStr(v), <<"a">>)))
    /\ (result.op = "base_filter" /\ IsQuery(QLikeDot))
           => Returned(WithField("Code", LAMBDA v : Truthy(v) /\ BeginsWith(PyStr(v), <<"A", ".", "C">>)))

\* The filter of the recorded call, applied to a list.
FilterAgain(items) ==
    IF result.op = "base_filter" THEN BaseApplyQueryFilter(items, QueryOf(result))
    ELSE SalesApplyQueryFilter(items, QueryOf(result))

\* C20: a filter applied to its own result returns that result: for every
\* list, every expression and both filters, when the first call returns.
C20_FilterIdempotent ==
    (result.op \in FilterOps /\ result.answer.exc = "")
        => FilterAgain(result.answer.items) = [exc |-> "", items |-> result.answer.items]

\* A filter call has just returned some but not all records of its list.
C20_Witness ==
    /\ result.op \in FilterOps
    /\ result.answer.exc = ""
    /\ result.answer.items # <<>>
    /\ Len(result.answer.items) < Len(pgItems)

\* The primary-key field of the entity type a class's repositories are followed on.
MainKey(c) == IF c = "MockDataLoader" THEN "POHeaderId" ELSE "HeaderId"

\* How many times a record occurs in a list.
Occurrences(items, rec) == Cardinality({i \in 1..Len(items) : items[i] = rec})

\* C21: for every record of the loaded document that carries its type's key
\* field, a get of that key on the loader returns that very record, and the
\* record occurs exactly once in the loader's list of the type -- whatever the
\* document, two records sharing a key included.
C21_IndexListConsistency ==
    result.op = "loader_get" =>
        \A i \in 1..Len(pgItems) :
            (MainKey(cls) \in DOMAIN pgItems[i] /\ pgItems[i][MainKey(cls)] = result.arg)
                => /\ result.answer.items = <<pgItems[i]>>
                   /\ Occurrences(EntityList(World, result.ref, MainEntity(cls)).items,
                                  pgItems[i]) = 1

\* a orders before b on a field: a record lacking the field before every
\* record that has it, numbers by value, strings by code point.
OrdersBefore(a, b, field) ==
    IF field \notin DOMAIN a THEN field \in DOMAIN b
    ELSE IF field \notin DOMAIN b THEN FALSE
    ELSE IF IsNumber(a[field]) THEN Hundredths(a[field]) < Hundredths(b[field])
    ELSE StrLess(a[field].s, b[field].s)

PositionIn(items, rec) == CHOOSE i \in 1..Len(items) : items[i] = rec

\* sorted is items put in order on the field, ascending or descending, records
\* with equal keys keeping the order they have in items.
IsStableSort(sorted, items, field, descending) ==
    /\ Len(sorted) = Len(items)
    /\ \A i \in 1..Len(items) : Occurrences(sorted, items[i]) = Occurrences(items, items[i])
    /\ \A i, j \in 1..Len(sorted) :
           i < j =>
               LET first == IF descending THEN sorted[j] ELSE sorted[i]
                   second == IF descending THEN sorted[i] ELSE sorted[j]
               IN  /\ ~OrdersBefore(second, first, field)
                   /\ ~OrdersBefore(first, second, field)
                          => PositionIn(items, sorted[i]) < PositionIn(items, sorted[j])

\* C22: sorting a record list by a field never raises and returns the list in
\* stable order on that field, ascending or descending, a record lacking the
\* field ordered lowest -- for text fields and for numeric ones.
C22_SortNeverFails ==
    (result.op = "order_by" /\ result.arg.s # <<>>)
        => /\ result.answer.exc = ""
           /\ IsStableSort(result.answer.items, pgItems, OrderByField(result.arg.s),
                           OrderByDescending(result.arg.s))

\* C23: a lookup by order number returns a record whose OrderNumber equals the
\* requested string, or None when no record has it, for every requested string:
\* empty, all digits, containing a quote.
C23_DerivedLookup ==
    result.op = "get_by_number" =>
        /\ result.answer.exc = ""
        /\ IF \E i \in 1..Len(pgItems) :
                  "OrderNumber" \in DOMAIN pgItems[i] /\ pgItems[i].OrderNumber = result.arg
           THEN /\ Len(result.answer.items) = 1
                /\ result.answer.items[1].OrderNumber = result.arg
           ELSE result.answer.items = <<>>

\* C24: no read, simulated action or simulated write changes a stored record
\* or the dataset: whatever has been called, the list and every lookup by key
\* give exactly the records that were loaded.
C24_NothingMutated ==
    /\ EntityList(World, 1, MainEntity(cls)).items = pgItems
    /\ heap[1].indexes = << BuildIndexes(cls, RepoDocument(cls, pgItems)) >>

\* A get_order without lines has answered with a shaped copy of a stored order
\* that has lines.
C24_Witness ==
    /\ result.op = "write" /\ result.path = "patch"
    /\ result.answer.exc = ""
    /\ "lines" \notin DOMAIN result.answer.items[1]
    /\ \E i \in 1..Len(pgItems) :
           /\ "lines" \in DOMAIN pgItems[i]
           /\ pgItems[i].HeaderId = result.arg

\* C25: with constructors, lookups and reset() running concurrently, no
\* constructor fails because another thread reset the loader under it, and every
\* lookup answers from indexes that are complete and built from the dataset
\* currently loaded.
C25_NoTornRead ==
    /\ result.op = "construct" => result.exc # "RuntimeError"
    /\ result.op = "thread_get" =>
           /\ data # <<>>
           /\ LET ix == BuildIndexes(cls, data[1])[FirstIndex(cls)]
              IN  result.answer.items =
                      IF result.arg \in DOMAIN ix THEN <<ix[result.arg]>> ELSE <<>>

\* C26: whenever a dataset is loaded, every entry of every index of every
\* loader a caller can reach (the singleton, or an instance kept from before a
\* reset) maps to a record of that dataset.
C26_NoStaleIndex ==
    data # <<>> =>
        \A o \in {instance} \cup {holders[h].loader : h \in 1..Len(holders)} :
            (o # NoObj /\ heap[o].indexes # <<>>) =>
                \A ix \in IndexNames(cls) :
                    \A k \in DOMAIN heap[o].indexes[1][ix] :
                        Occurrences(DataGet(data[1], EntityOf(cls, ix).name),
                                    heap[o].indexes[1][ix][k]) > 0

\* The arrangements of a sequence.
Arrangements(seq) ==
    { [i \in 1..Len(seq) |-> seq[f[i]]] :
        f \in { g \in [1..Len(seq) -> 1..Len(seq)] :
                  \A i, j \in 1..Len(seq) : g[i] = g[j] => i = j } }

\* The positions [offset, offset + limit) of a sequence.
Positions(seq, limit, offset) ==
    [i \in 1..Max(0, Min(Len(seq), offset + limit) - offset) |-> seq[offset + i]]

\* The answer of list(limit, offset, query, order_by) over the loaded purchase
\* orders, query being absent or SupplierId=10: the matching records, put in
\* order, cut to the page; has_more counts the matching records.
ListedRight(answer, limit, offset, query, order_by) ==
    LET filtered == SelectSeq(pgItems, LAMBDA po :
                        /\ "POHeaderId" \in DOMAIN po
                        /\ query # <<>> => po.SupplierId = IntV(10))
        sorted_items == CHOOSE sorted \in Arrangements(filtered) :
                            IF order_by = <<>> THEN sorted = filtered
                            ELSE IsStableSort(sorted, filtered, OrderByField(order_by),
                                              OrderByDescending(order_by))
    IN  /\ answer.exc = ""
        /\ answer.items = Positions(sorted_items, limit, offset)
        /\ answer.has_more = (offset + limit < Len(filtered))

\* C27: list(limit, offset, query, order_by) filters, then sorts, then
\* paginates: its items are positions [offset, offset + limit) of the sorted
\* filtered records and has_more compares offset + limit with the number of
\* filtered records.
C27_FilterSortPaginate ==
    result.op = "list" =>
        ListedRight(result.answer, result.answer.limit, result.answer.offset,
                    IF result.path = "q" THEN <<QSupplierEq>> ELSE <<>>, result.order_by)

\* A filtered list has answered with its one match and has_more False over a
\* dataset of two records, limit being 1.
C27_Witness ==
    /\ result.op = "list" /\ result.path = "q"
    /\ result.answer.exc = ""
    /\ result.answer.limit = 1 /\ result.answer.offset = 0
    /\ Len(result.answer.items) = 1
    /\ ~result.answer.has_more
    /\ Len(SelectSeq(pgItems, LAMBDA po : "POHeaderId" \in DOMAIN po)) = 2

\* The records of the loaded list that lack the primary-key field.
KeylessRecords == { pgItems[i] : i \in { j \in 1..Len(pgItems) : MainKey(cls) \notin DOMAIN pgItems[j] } }

\* C28: a record lacking the primary-key field is never returned by a lookup by
\* key, but it is in the full list of its type and an unfiltered list operation
\* whose page spans the dataset returns it.
C28_KeylessListed ==
    /\ result.op = "loader_get" =>
           \A i \in 1..Len(result.answer.items) : result.answer.items[i] \notin KeylessRecords
    /\ result.op = "loader_list" =>
           \A rec \in KeylessRecords : Occurrences(result.answer.items, rec) = 1
    /\ (result.op = "list" /\ result.path = NoPath /\ result.answer.exc = ""
            /\ result.answer.offset = 0 /\ result.answer.limit >= Len(pgItems)) =>
           \A rec \in KeylessRecords : Occurrences(result.answer.items, rec) = 1

\* C29: on one service, in every state (after a reset or another client's
\* construction from a different path too), get_by_id(k) succeeds exactly when
\* the unfiltered list() of the same service, with a page spanning the dataset,
\* succeeds and holds a record with key k, and both return the same record.
C29_GetListAgree ==
    (result.op = "get_by_id" /\ HeaderIdOf(result.arg).ok) =>
        LET key == IntV(HeaderIdOf(result.arg).n)
            listed == ServiceList(World, result.ref, 9, 0, <<>>)
            at == { i \in 1..Len(listed.items) : listed.items[i].POHeaderId = key }
        IN  /\ result.answer.exc = "" <=> (listed.exc = "" /\ at # {})
            /\ result.answer.exc = "" => \A i \in at : result.answer.items = <<listed.items[i]>>

\* C30: a client constructed with the path of a document that does not exist,
\* while a dataset is loaded, raises FileNotFoundError and leaves the session as
\* it was: the dataset stays stored, the singleton stays, and every loader
\* object keeps its indexes, so earlier clients answer as before.
C30_FailedConstructionKeepsSession ==
    [][ (NewClient("missing") /\ data # <<>>)
            => /\ result'.exc = "FileNotFoundError"
               /\ data' = data
               /\ instance' = instance
               /\ \A o \in 1..Len(heap) : heap'[o] = heap[o] ]_vars

=============================================================================
